---- MODULE Spec2Model ----
EXTENDS Integers, Sequences, FiniteSets, TLC

(***************************************************************************)
(* Texas Hold'em engine: the hand evaluator (engine/evaluator.py), the     *)
(* cards and the deck (engine/cards.py), the table state                   *)
(* (engine/game_state.py) and the street rules (engine/rules.py).          *)
(*                                                                         *)
(* A card is a record [rank, suit].  The four suit symbols of cards.py are *)
(* written "clubs", "diamonds", "hearts", "spades", in the order of SUITS. *)
(* A Python list or tuple is a sequence; Python index k is index k+1.      *)
(* A HandScore (category, kickers) is the pair <<category, kickers>>.      *)
(* A call that returns v is [raised |-> "none", value |-> v]; a call that  *)
(* raises exception E is [raised |-> E, value |-> <<>>].                   *)
(***************************************************************************)

VARIABLES
    \* a caller of evaluate_hand
    cards,          \* the caller's list of cards
    result,         \* what the last call of evaluate_hand returned or raised
    classifier,     \* the classifier the last call handed the cards to
    pc,             \* the caller's position
    called,         \* index of the sample hand passed last, 0 before any call
    firsts,         \* for each sample hand, what its first evaluation gave
    hands,          \* the lists the repeated caller holds, as its calls left them
    seen,           \* the categories returned so far
    bitmasks,       \* the module-level list STRAIGHT_BITMASKS
    \* Card construction
    made,           \* the last two Card(...) calls: arguments and outcome
    acts,           \* the last two PlayerAction(...) calls: arguments and outcome
    \* a Deck
    deck,           \* Deck._cards
    drawn,          \* every card returned by draw so far, in order
    last,           \* the last Deck operation, its outcome and the deck before it
    \* a GameState
    players, button, street, board, pot, to_act, current_bet,
    blinds,         \* the last post_blinds call: its outcome and blind seats
    steps,          \* number of street advances so far
    \* the two straight detectors
    sranks,         \* the list of ranks handed to the detectors
    sfound          \* what _check_straight and _highest_straight returned for it

evalVars == <<cards, result, classifier, pc, called, firsts, hands, seen, bitmasks>>

cardVars == <<made, acts>>

deckVars == <<deck, drawn, last>>

gameVars == <<players, button, street, board, pot, to_act, current_bet, blinds, steps>>

straightVars == <<sranks, sfound>>

vars == <<evalVars, cardVars, deckVars, gameVars, straightVars>>

----------------------------------------------------------------------------
(* Bounds of the model *)

\* hands are dealt from the first PoolSize cards of Pool
PoolSize == 16
\* the caller passes at most MaxCards cards to evaluate_hand
MaxCards == 8

----------------------------------------------------------------------------
(* engine/cards.py *)

SUITS == <<"clubs", "diamonds", "hearts", "spades">>

RANKS == 2..14

Card(rank, suit) == [rank |-> rank, suit |-> suit]

----------------------------------------------------------------------------
(* engine/evaluator.py: constants *)

\* mutant: the royal flush is collapsed into the straight flush tier
ROYAL_FLUSH_collapsed == 8 - 1

ROYAL_FLUSH == 8

\* mutant: the straight flush shares the value of the flush
STRAIGHT_FLUSH_as_flush == 5 - 1

STRAIGHT_FLUSH == 7
FOUR_OF_KIND == 6
FULL_HOUSE == 5
FLUSH == 4
STRAIGHT == 3
THREE_OF_KIND == 2
TWO_PAIR == 1
ONE_PAIR == 0
HIGH_CARD == 0 - 1

----------------------------------------------------------------------------
(* Python built-ins used by the evaluator *)

Return(v) == [raised |-> "none", value |-> v]

Raise(e) == [raised |-> e, value |-> <<>>]

Min2(a, b) == IF a <= b THEN a ELSE b

Max2(a, b) == IF a >= b THEN a ELSE b

\* a & b on non-negative integers
RECURSIVE BitAnd(_, _)
BitAnd(a, b) ==
    IF a = 0 \/ b = 0 THEN 0
    ELSE (a % 2) * (b % 2) + 2 * BitAnd(a \div 2, b \div 2)

\* a | b on non-negative integers
RECURSIVE BitOr(_, _)
BitOr(a, b) ==
    IF a = 0 THEN b
    ELSE IF b = 0 THEN a
    ELSE (IF a % 2 = 1 \/ b % 2 = 1 THEN 1 ELSE 0) + 2 * BitOr(a \div 2, b \div 2)

\* 1 << n
Shl1(n) == 2 ^ n

\* tuple comparison a < b of two tuples of integers: the first differing
\* element decides; a proper prefix is smaller
TupleLT(a, b) ==
    LET common == Min2(Len(a), Len(b))
        diff == {i \in 1..common : a[i] # b[i]}
    IN  IF diff = {} THEN Len(a) < Len(b)
        ELSE LET k == CHOOSE i \in diff : \A j \in diff : i <= j
             IN  a[k] < b[k]

\* sorted(xs, reverse=True) on a list of integers: insertion into a
\* descending list after the elements that are greater or equal, which
\* keeps equal elements in input order as the stable sort does
RECURSIVE InsertDesc(_, _)
InsertDesc(sorted, x) ==
    IF sorted = <<>> THEN <<x>>
    ELSE IF Head(sorted) >= x THEN <<Head(sorted)>> \o InsertDesc(Tail(sorted), x)
    ELSE <<x>> \o sorted

RECURSIVE SortedDescFrom(_, _, _)
SortedDescFrom(xs, i, sorted) ==
    IF i > Len(xs) THEN sorted
    ELSE SortedDescFrom(xs, i + 1, InsertDesc(sorted, xs[i]))

\* mutant: the list is used as given, the sort is forgotten
SortedDesc_unsorted(xs) == xs

SortedDesc(xs) == SortedDescFrom(xs, 1, <<>>)

\* sorted(S) on a set of integers
RECURSIVE SortedAsc(_)
SortedAsc(set) ==
    IF set = {} THEN <<>>
    ELSE LET least == CHOOSE x \in set : \A y \in set : x <= y
         IN  <<least>> \o SortedAsc(set \ {least})

\* sorted(set(xs)) on a list of integers
SortedSet(xs) == SortedAsc({xs[i] : i \in 1..Len(xs)})

\* Counter(ranks).items(): one (rank, count) pair per distinct rank, in the
\* order of first occurrence
RECURSIVE CounterFrom(_, _, _)
CounterFrom(ranks, i, items) ==
    IF i > Len(ranks) THEN items
    ELSE LET r == ranks[i]
         IN  IF \E k \in 1..Len(items) : items[k][1] = r
             THEN CounterFrom(ranks, i + 1,
                      [k \in 1..Len(items) |->
                          IF items[k][1] = r THEN <<r, items[k][2] + 1>> ELSE items[k]])
             ELSE CounterFrom(ranks, i + 1, Append(items, <<r, 1>>))

CounterItems(ranks) == CounterFrom(ranks, 1, <<>>)

\* sorted(items, key=lambda x: (x[1], x[0]), reverse=True): stable, by
\* (count, rank) descending
CountsSortKeyGE(x, y) == x[2] > y[2] \/ (x[2] = y[2] /\ x[1] >= y[1])

RECURSIVE InsertCount(_, _)
InsertCount(sorted, x) ==
    IF sorted = <<>> THEN <<x>>
    ELSE IF CountsSortKeyGE(Head(sorted), x)
    THEN <<Head(sorted)>> \o InsertCount(Tail(sorted), x)
    ELSE <<x>> \o sorted

RECURSIVE SortedCountsFrom(_, _, _)
SortedCountsFrom(items, i, sorted) ==
    IF i > Len(items) THEN sorted
    ELSE SortedCountsFrom(items, i + 1, InsertCount(sorted, items[i]))

\* mutant: key=lambda x: x[0], the rank profile ordered by rank alone
SortedCounts_by_rank(items) ==
    LET by_rank == SortedDesc([k \in 1..Len(items) |-> items[k][1]])
    IN  [p \in 1..Len(items) |->
            items[CHOOSE k \in 1..Len(items) : items[k][1] = by_rank[p]]]

SortedCounts(items) == SortedCountsFrom(items, 1, <<>>)

----------------------------------------------------------------------------
(* engine/evaluator.py: straight detection *)

RECURSIVE WindowMask(_, _)
WindowMask(high, rank) ==
    IF rank > high THEN 0
    ELSE BitOr(IF rank = 1 THEN Shl1(1) ELSE Shl1(rank), WindowMask(high, rank + 1))

\* the list the module builds when it is imported (lines 43-51)
STRAIGHT_BITMASKS ==
    [high \in 0..14 |-> IF high >= 5 THEN WindowMask(high, high - 4) ELSE 0]

RECURSIVE HighestStraightFrom(_, _)
HighestStraightFrom(mask, high) ==
    IF high < 5 THEN 0
    ELSE LET straight_mask == STRAIGHT_BITMASKS[high]
         IN  IF straight_mask # 0 /\ BitAnd(mask, straight_mask) = straight_mask
             THEN high
             ELSE HighestStraightFrom(mask, high - 1)

\* mutant: the windows are tried from the lowest upward
RECURSIVE LowestStraightFrom(_, _)
LowestStraightFrom(mask, high) ==
    IF high > 14 THEN 0
    ELSE LET straight_mask == STRAIGHT_BITMASKS[high]
         IN  IF straight_mask # 0 /\ BitAnd(mask, straight_mask) = straight_mask
             THEN high
             ELSE LowestStraightFrom(mask, high + 1)

_highest_straight_lowest_window(mask) ==
    LET m == IF BitAnd(mask, Shl1(14)) # 0 THEN BitOr(mask, Shl1(1)) ELSE mask
    IN  LowestStraightFrom(m, 5)

\* mutant: the Ace is not projected onto rank 1
_highest_straight_ace_high_only(mask) == HighestStraightFrom(mask, 14)

_highest_straight(mask) ==
    LET m == IF BitAnd(mask, Shl1(14)) # 0 THEN BitOr(mask, Shl1(1)) ELSE mask
    IN  HighestStraightFrom(m, 14)

\* mutant: the number of unique ranks is not checked
_check_straight_any_count(ranks) ==
    LET unique_ranks == SortedSet(ranks)
        n == Len(unique_ranks)
    IN  IF n = 0 THEN <<FALSE, 0>>
        ELSE IF unique_ranks[n] - unique_ranks[1] = 4 THEN <<TRUE, unique_ranks[n]>>
        ELSE IF unique_ranks = <<2, 3, 4, 5, 14>> THEN <<TRUE, 5>>
        ELSE <<FALSE, 0>>

\* mutant: the wheel reports its highest rank, the Ace, as high card
_check_straight_wheel_ace_high(ranks) ==
    LET unique_ranks == SortedSet(ranks)
    IN  IF Len(unique_ranks) # 5 THEN <<FALSE, 0>>
        ELSE IF unique_ranks[5] - unique_ranks[1] = 4 THEN <<TRUE, unique_ranks[5]>>
        ELSE IF unique_ranks = <<2, 3, 4, 5, 14>> THEN <<TRUE, unique_ranks[5]>>
        ELSE <<FALSE, 0>>

\* returns <<is_straight, high_card>>
_check_straight(ranks) ==
    LET unique_ranks == SortedSet(ranks)
    IN  IF Len(unique_ranks) # 5 THEN <<FALSE, 0>>
        ELSE IF unique_ranks[5] - unique_ranks[1] = 4 THEN <<TRUE, unique_ranks[5]>>
        ELSE IF unique_ranks = <<2, 3, 4, 5, 14>> THEN <<TRUE, 5>>
        ELSE <<FALSE, 0>>

----------------------------------------------------------------------------
(* engine/evaluator.py: the 5-card classifier *)

\* mutant: the flush rule is tested before the straight flush rule
_evaluate_5_flush_first(hand) ==
    LET ranks == [i \in 1..Len(hand) |-> hand[i].rank]
        suits == [i \in 1..Len(hand) |-> hand[i].suit]
        rank_counts == CounterItems(ranks)
        counts_sorted == SortedCounts(rank_counts)
        n == Len(counts_sorted)
        is_flush == Cardinality({suits[i] : i \in 1..Len(suits)}) = 1
        straight == _check_straight(ranks)
        is_straight == straight[1]
        straight_high == straight[2]
    IN  IF is_flush
        THEN Return(<<FLUSH, SortedDesc(ranks)>>)
        ELSE IF is_flush /\ is_straight
        THEN IF straight_high = 14
             THEN Return(<<ROYAL_FLUSH, <<14>>>>)
             ELSE Return(<<STRAIGHT_FLUSH, <<straight_high>>>>)
        ELSE IF n < 1 THEN Raise("IndexError")
        ELSE IF counts_sorted[1][2] = 4
        THEN IF n < 2 THEN Raise("IndexError")
             ELSE Return(<<FOUR_OF_KIND, <<counts_sorted[1][1], counts_sorted[2][1]>>>>)
        ELSE IF counts_sorted[1][2] = 3 /\ n < 2 THEN Raise("IndexError")
        ELSE IF counts_sorted[1][2] = 3 /\ counts_sorted[2][2] = 2
        THEN Return(<<FULL_HOUSE, <<counts_sorted[1][1], counts_sorted[2][1]>>>>)
        ELSE IF is_flush THEN Return(<<FLUSH, SortedDesc(ranks)>>)
        ELSE IF is_straight THEN Return(<<STRAIGHT, <<straight_high>>>>)
        ELSE IF counts_sorted[1][2] = 3
        THEN LET remaining == [k \in 1..(n - 1) |-> counts_sorted[k + 1][1]]
             IN  Return(<<THREE_OF_KIND, <<counts_sorted[1][1]>> \o SortedDesc(remaining)>>)
        ELSE IF counts_sorted[1][2] = 2 /\ n < 2 THEN Raise("IndexError")
        ELSE IF counts_sorted[1][2] = 2 /\ counts_sorted[2][2] = 2
        THEN IF n < 3 THEN Raise("IndexError")
             ELSE LET pair_a == counts_sorted[1][1]
                      pair_b == counts_sorted[2][1]
                  IN  Return(<<TWO_PAIR,
                               <<Max2(pair_a, pair_b), Min2(pair_a, pair_b),
                                 counts_sorted[3][1]>>>>)
        ELSE IF counts_sorted[1][2] = 2
        THEN LET remaining == [k \in 1..(n - 1) |-> counts_sorted[k + 1][1]]
             IN  Return(<<ONE_PAIR, <<counts_sorted[1][1]>> \o SortedDesc(remaining)>>)
        ELSE Return(<<HIGH_CARD, SortedDesc(ranks)>>)

_evaluate_5(hand) ==
    LET ranks == [i \in 1..Len(hand) |-> hand[i].rank]
        suits == [i \in 1..Len(hand) |-> hand[i].suit]
        rank_counts == CounterItems(ranks)
        counts_sorted == SortedCounts(rank_counts)
        n == Len(counts_sorted)
        is_flush == Cardinality({suits[i] : i \in 1..Len(suits)}) = 1
        straight == _check_straight(ranks)
        is_straight == straight[1]
        straight_high == straight[2]
    IN  IF is_flush /\ is_straight
        THEN IF straight_high = 14
             THEN Return(<<ROYAL_FLUSH, <<14>>>>)
             ELSE Return(<<STRAIGHT_FLUSH, <<straight_high>>>>)
        ELSE IF n < 1 THEN Raise("IndexError")
        ELSE IF counts_sorted[1][2] = 4
        THEN IF n < 2 THEN Raise("IndexError")
             ELSE Return(<<FOUR_OF_KIND, <<counts_sorted[1][1], counts_sorted[2][1]>>>>)
        ELSE IF counts_sorted[1][2] = 3 /\ n < 2 THEN Raise("IndexError")
        ELSE IF counts_sorted[1][2] = 3 /\ counts_sorted[2][2] = 2
        THEN Return(<<FULL_HOUSE, <<counts_sorted[1][1], counts_sorted[2][1]>>>>)
        ELSE IF is_flush THEN Return(<<FLUSH, SortedDesc(ranks)>>)
        ELSE IF is_straight THEN Return(<<STRAIGHT, <<straight_high>>>>)
        ELSE IF counts_sorted[1][2] = 3
        THEN LET remaining == [k \in 1..(n - 1) |-> counts_sorted[k + 1][1]]
             IN  Return(<<THREE_OF_KIND, <<counts_sorted[1][1]>> \o SortedDesc(remaining)>>)
        ELSE IF counts_sorted[1][2] = 2 /\ n < 2 THEN Raise("IndexError")
        ELSE IF counts_sorted[1][2] = 2 /\ counts_sorted[2][2] = 2
        THEN IF n < 3 THEN Raise("IndexError")
             ELSE LET pair_a == counts_sorted[1][1]
                      pair_b == counts_sorted[2][1]
                  IN  Return(<<TWO_PAIR,
                               <<Max2(pair_a, pair_b), Min2(pair_a, pair_b),
                                 counts_sorted[3][1]>>>>)
        ELSE IF counts_sorted[1][2] = 2
        THEN LET remaining == [k \in 1..(n - 1) |-> counts_sorted[k + 1][1]]
             IN  Return(<<ONE_PAIR, <<counts_sorted[1][1]>> \o SortedDesc(remaining)>>)
        ELSE Return(<<HIGH_CARD, SortedDesc(ranks)>>)

----------------------------------------------------------------------------
(* engine/evaluator.py: the 6-7 card evaluator *)

RECURSIVE CollectFrom(_, _, _, _, _)
CollectFrom(rank_counts, exclude, needed, rank, collected) ==
    IF rank < 2 THEN collected
    ELSE IF rank \in exclude \/ rank_counts[rank] = 0
    THEN CollectFrom(rank_counts, exclude, needed, rank - 1, collected)
    ELSE LET count == rank_counts[rank]
             take == Min2(count, needed - Len(collected))
             extended == collected \o [i \in 1..take |-> rank]
         IN  IF Len(extended) = needed THEN extended
             ELSE CollectFrom(rank_counts, exclude, needed, rank - 1, extended)

\* mutant: range(14, 2, -1), rank 2 is never collected
RECURSIVE CollectAbove2From(_, _, _, _, _)
CollectAbove2From(rank_counts, exclude, needed, rank, collected) ==
    IF rank < 3 THEN collected
    ELSE IF rank \in exclude \/ rank_counts[rank] = 0
    THEN CollectAbove2From(rank_counts, exclude, needed, rank - 1, collected)
    ELSE LET count == rank_counts[rank]
             take == Min2(count, needed - Len(collected))
             extended == collected \o [i \in 1..take |-> rank]
         IN  IF Len(extended) = needed THEN extended
             ELSE CollectAbove2From(rank_counts, exclude, needed, rank - 1, extended)

_collect_high_cards_above_2(rank_counts, exclude, needed) ==
    CollectAbove2From(rank_counts, exclude, needed, 14, <<>>)

\* mutant: only unpaired ranks are collected
RECURSIVE CollectUnpairedFrom(_, _, _, _, _)
CollectUnpairedFrom(rank_counts, exclude, needed, rank, collected) ==
    IF rank < 2 THEN collected
    ELSE IF rank \in exclude \/ rank_counts[rank] # 1
    THEN CollectUnpairedFrom(rank_counts, exclude, needed, rank - 1, collected)
    ELSE LET extended == Append(collected, rank)
         IN  IF Len(extended) = needed THEN extended
             ELSE CollectUnpairedFrom(rank_counts, exclude, needed, rank - 1, extended)

_collect_high_cards_unpaired_only(rank_counts, exclude, needed) ==
    CollectUnpairedFrom(rank_counts, exclude, needed, 14, <<>>)

\* mutant: every copy of a rank is taken and the walk never stops early
RECURSIVE CollectAllFrom(_, _, _, _)
CollectAllFrom(rank_counts, exclude, rank, collected) ==
    IF rank < 2 THEN collected
    ELSE IF rank \in exclude \/ rank_counts[rank] = 0
    THEN CollectAllFrom(rank_counts, exclude, rank - 1, collected)
    ELSE CollectAllFrom(rank_counts, exclude, rank - 1,
             collected \o [i \in 1..rank_counts[rank] |-> rank])

_collect_high_cards_uncapped(rank_counts, exclude, needed) ==
    CollectAllFrom(rank_counts, exclude, 14, <<>>)

_collect_high_cards(rank_counts, exclude, needed) ==
    CollectFrom(rank_counts, exclude, needed, 14, <<>>)

\* [rank for rank in range(14, 1, -1) if rank in S]
\* mutant: range(2, 15), the ranks are listed lowest first
RanksDescending_lowest_first(S) ==
    LET T == S \cap (2..14)
    IN  [p \in 1..Cardinality(T) |->
            CHOOSE r \in T : Cardinality({q \in T : q < r}) = p - 1]

RanksDescending(S) ==
    LET T == S \cap (2..14)
    IN  [p \in 1..Cardinality(T) |->
            CHOOSE r \in T : Cardinality({q \in T : q > r}) = p - 1]

\* the mask built by mask |= 1 << rank over a list of ranks
RECURSIVE RanksMask(_)
RanksMask(ranks) ==
    IF ranks = <<>> THEN 0
    ELSE BitOr(RanksMask(SubSeq(ranks, 1, Len(ranks) - 1)), Shl1(ranks[Len(ranks)]))

\* the ranks of the cards of one suit, in input order
SuitRanks(hand, suit) ==
    LET of_suit == SelectSeq(hand, LAMBDA c : c.suit = suit)
    IN  [i \in 1..Len(of_suit) |-> of_suit[i].rank]

\* mutant: the straight is looked for among the ranks of all suits
RECURSIVE FlushLoop_all_suits_mask(_, _, _, _)
FlushLoop_all_suits_mask(k, suit_ranks, suit_masks, best_flush) ==
    IF k > Len(SUITS)
    THEN [returned |-> FALSE, value |-> <<>>, best_flush |-> best_flush]
    ELSE LET suit == SUITS[k]
             ranks == suit_ranks[suit]
         IN  IF Len(ranks) < 5
             THEN FlushLoop_all_suits_mask(k + 1, suit_ranks, suit_masks, best_flush)
             ELSE LET straight_high == _highest_straight(
                          BitOr(BitOr(suit_masks[SUITS[1]], suit_masks[SUITS[2]]),
                                BitOr(suit_masks[SUITS[3]], suit_masks[SUITS[4]])))
                  IN  IF straight_high # 0
                      THEN [returned |-> TRUE,
                            value |-> IF straight_high = 14
                                      THEN <<ROYAL_FLUSH, <<14>>>>
                                      ELSE <<STRAIGHT_FLUSH, <<straight_high>>>>,
                            best_flush |-> best_flush]
                      ELSE LET top_five == SubSeq(SortedDesc(ranks), 1, 5)
                           IN  FlushLoop_all_suits_mask(k + 1, suit_ranks, suit_masks,
                                   IF best_flush = <<>> THEN top_five
                                   ELSE IF TupleLT(best_flush, top_five) THEN top_five
                                   ELSE best_flush)

\* mutant: the first five cards of the suit are kept, not the five highest
RECURSIVE FlushLoop_first_five(_, _, _, _)
FlushLoop_first_five(k, suit_ranks, suit_masks, best_flush) ==
    IF k > Len(SUITS)
    THEN [returned |-> FALSE, value |-> <<>>, best_flush |-> best_flush]
    ELSE LET suit == SUITS[k]
             ranks == suit_ranks[suit]
         IN  IF Len(ranks) < 5
             THEN FlushLoop_first_five(k + 1, suit_ranks, suit_masks, best_flush)
             ELSE LET straight_high == _highest_straight(suit_masks[suit])
                  IN  IF straight_high # 0
                      THEN [returned |-> TRUE,
                            value |-> IF straight_high = 14
                                      THEN <<ROYAL_FLUSH, <<14>>>>
                                      ELSE <<STRAIGHT_FLUSH, <<straight_high>>>>,
                            best_flush |-> best_flush]
                      ELSE LET top_five == SortedDesc(SubSeq(ranks, 1, 5))
                           IN  FlushLoop_first_five(k + 1, suit_ranks, suit_masks,
                                   IF best_flush = <<>> THEN top_five
                                   ELSE IF TupleLT(best_flush, top_five) THEN top_five
                                   ELSE best_flush)

\* The loop over suit_ranks.items(), from the k-th suit on.  best_flush is
\* <<>> for None.  Returns [returned, value, best_flush]: returned is TRUE
\* when the loop body executed a return statement, with its value.
RECURSIVE FlushLoop(_, _, _, _)
FlushLoop(k, suit_ranks, suit_masks, best_flush) ==
    IF k > Len(SUITS)
    THEN [returned |-> FALSE, value |-> <<>>, best_flush |-> best_flush]
    ELSE LET suit == SUITS[k]
             ranks == suit_ranks[suit]
         IN  IF Len(ranks) < 5
             THEN FlushLoop(k + 1, suit_ranks, suit_masks, best_flush)
             ELSE LET straight_high == _highest_straight(suit_masks[suit])
                  IN  IF straight_high # 0
                      THEN [returned |-> TRUE,
                            value |-> IF straight_high = 14
                                      THEN <<ROYAL_FLUSH, <<14>>>>
                                      ELSE <<STRAIGHT_FLUSH, <<straight_high>>>>,
                            best_flush |-> best_flush]
                      ELSE LET top_five == SubSeq(SortedDesc(ranks), 1, 5)
                           IN  FlushLoop(k + 1, suit_ranks, suit_masks,
                                   IF best_flush = <<>> THEN top_five
                                   ELSE IF TupleLT(best_flush, top_five) THEN top_five
                                   ELSE best_flush)

_evaluate_best_5_fast(hand) ==
    LET n == Len(hand)
        all_ranks == [i \in 1..n |-> hand[i].rank]
        rank_counts == [r \in 0..14 |-> Cardinality({i \in 1..n : hand[i].rank = r})]
        suit_ranks == [s \in {SUITS[k] : k \in 1..Len(SUITS)} |-> SuitRanks(hand, s)]
        suit_masks == [s \in {SUITS[k] : k \in 1..Len(SUITS)} |-> RanksMask(suit_ranks[s])]
        rank_mask == RanksMask(all_ranks)
        trip_ranks == RanksDescending({r \in 2..14 : rank_counts[r] >= 3})
        pair_ranks == RanksDescending({r \in 2..14 : rank_counts[r] >= 2})
        quad_ranks == RanksDescending({r \in 2..14 : rank_counts[r] = 4})
        flushes == FlushLoop(1, suit_ranks, suit_masks, <<>>)
        best_flush == flushes.best_flush
        other_pairs == IF trip_ranks = <<>> THEN <<>>
                       ELSE SelectSeq(pair_ranks, LAMBDA r : r # trip_ranks[1])
        \* <<>> for None
        secondary_trip == IF trip_ranks = <<>> THEN <<>>
                          ELSE IF Len(trip_ranks) > 1 THEN <<trip_ranks[2]>>
                          ELSE IF other_pairs # <<>> THEN <<other_pairs[1]>>
                          ELSE <<>>
        straight_high == _highest_straight(rank_mask)
    IN  IF flushes.returned THEN Return(flushes.value)
        ELSE IF quad_ranks # <<>>
        THEN LET rank == quad_ranks[1]
                 kickers == _collect_high_cards(rank_counts, {rank}, 1)
             IN  IF kickers = <<>> THEN Raise("IndexError")
                 ELSE Return(<<FOUR_OF_KIND, <<rank, kickers[1]>>>>)
        ELSE IF trip_ranks # <<>> /\ secondary_trip # <<>>
        THEN Return(<<FULL_HOUSE, <<trip_ranks[1], secondary_trip[1]>>>>)
        ELSE IF best_flush # <<>> THEN Return(<<FLUSH, best_flush>>)
        ELSE IF straight_high # 0 THEN Return(<<STRAIGHT, <<straight_high>>>>)
        ELSE IF trip_ranks # <<>>
        THEN LET trip == trip_ranks[1]
                 kickers == _collect_high_cards(rank_counts, {trip}, 2)
             IN  Return(<<THREE_OF_KIND, <<trip>> \o kickers>>)
        ELSE IF Len(pair_ranks) >= 2
        THEN LET high_pair == pair_ranks[1]
                 low_pair == pair_ranks[2]
                 kickers == _collect_high_cards(rank_counts, {high_pair, low_pair}, 1)
             IN  IF kickers = <<>> THEN Raise("IndexError")
                 ELSE Return(<<TWO_PAIR, <<high_pair, low_pair, kickers[1]>>>>)
        ELSE IF pair_ranks # <<>>
        THEN LET pair == pair_ranks[1]
                 kickers == _collect_high_cards(rank_counts, {pair}, 3)
             IN  Return(<<ONE_PAIR, <<pair>> \o kickers>>)
        ELSE Return(<<HIGH_CARD, _collect_high_cards(rank_counts, {}, 5)>>)

\* mutant: the upper limit of the size check is off by one
evaluate_hand_up_to_8(hand) ==
    IF ~(5 <= Len(hand) /\ Len(hand) <= 8) THEN Raise("ValueError")
    ELSE IF Len(hand) = 5 THEN _evaluate_5(hand)
    ELSE _evaluate_best_5_fast(hand)

evaluate_hand(hand) ==
    IF ~(5 <= Len(hand) /\ Len(hand) <= 7) THEN Raise("ValueError")
    ELSE IF Len(hand) = 5 THEN _evaluate_5(hand)
    ELSE _evaluate_best_5_fast(hand)

(***************************************************************************)
(* The evaluator with the module-level list as an argument: the functions  *)
(* on the path from evaluate_hand to the read STRAIGHT_BITMASKS[high] in   *)
(* _highest_straight, reading the list at the value `table` it has when    *)
(* the call is made.                                                       *)
(***************************************************************************)

RECURSIVE HighestStraightFromIn(_, _, _)
HighestStraightFromIn(table, mask, high) ==
    IF high < 5 THEN 0
    ELSE LET straight_mask == table[high]
         IN  IF straight_mask # 0 /\ BitAnd(mask, straight_mask) = straight_mask
             THEN high
             ELSE HighestStraightFromIn(table, mask, high - 1)

_highest_straight_in(table, mask) ==
    LET m == IF BitAnd(mask, Shl1(14)) # 0 THEN BitOr(mask, Shl1(1)) ELSE mask
    IN  HighestStraightFromIn(table, m, 14)

RECURSIVE FlushLoopIn(_, _, _, _, _)
FlushLoopIn(table, k, suit_ranks, suit_masks, best_flush) ==
    IF k > Len(SUITS)
    THEN [returned |-> FALSE, value |-> <<>>, best_flush |-> best_flush]
    ELSE LET suit == SUITS[k]
             ranks == suit_ranks[suit]
         IN  IF Len(ranks) < 5
             THEN FlushLoopIn(table, k + 1, suit_ranks, suit_masks, best_flush)
             ELSE LET straight_high == _highest_straight_in(table, suit_masks[suit])
                  IN  IF straight_high # 0
                      THEN [returned |-> TRUE,
                            value |-> IF straight_high = 14
                                      THEN <<ROYAL_FLUSH, <<14>>>>
                                      ELSE <<STRAIGHT_FLUSH, <<straight_high>>>>,
                            best_flush |-> best_flush]
                      ELSE LET top_five == SubSeq(SortedDesc(ranks), 1, 5)
                           IN  FlushLoopIn(table, k + 1, suit_ranks, suit_masks,
                                   IF best_flush = <<>> THEN top_five
                                   ELSE IF TupleLT(best_flush, top_five) THEN top_five
                                   ELSE best_flush)

_evaluate_best_5_fast_in(table, hand) ==
    LET n == Len(hand)
        all_ranks == [i \in 1..n |-> hand[i].rank]
        rank_counts == [r \in 0..14 |-> Cardinality({i \in 1..n : hand[i].rank = r})]
        suit_ranks == [s \in {SUITS[k] : k \in 1..Len(SUITS)} |-> SuitRanks(hand, s)]
        suit_masks == [s \in {SUITS[k] : k \in 1..Len(SUITS)} |-> RanksMask(suit_ranks[s])]
        rank_mask == RanksMask(all_ranks)
        trip_ranks == RanksDescending({r \in 2..14 : rank_counts[r] >= 3})
        pair_ranks == RanksDescending({r \in 2..14 : rank_counts[r] >= 2})
        quad_ranks == RanksDescending({r \in 2..14 : rank_counts[r] = 4})
        flushes == FlushLoopIn(table, 1, suit_ranks, suit_masks, <<>>)
        best_flush == flushes.best_flush
        other_pairs == IF trip_ranks = <<>> THEN <<>>
                       ELSE SelectSeq(pair_ranks, LAMBDA r : r # trip_ranks[1])
        \* <<>> for None
        secondary_trip == IF trip_ranks = <<>> THEN <<>>
                          ELSE IF Len(trip_ranks) > 1 THEN <<trip_ranks[2]>>
                          ELSE IF other_pairs # <<>> THEN <<other_pairs[1]>>
                          ELSE <<>>
        straight_high == _highest_straight_in(table, rank_mask)
    IN  IF flushes.returned THEN Return(flushes.value)
        ELSE IF quad_ranks # <<>>
        THEN LET rank == quad_ranks[1]
                 kickers == _collect_high_cards(rank_counts, {rank}, 1)
             IN  IF kickers = <<>> THEN Raise("IndexError")
                 ELSE Return(<<FOUR_OF_KIND, <<rank, kickers[1]>>>>)
        ELSE IF trip_ranks # <<>> /\ secondary_trip # <<>>
        THEN Return(<<FULL_HOUSE, <<trip_ranks[1], secondary_trip[1]>>>>)
        ELSE IF best_flush # <<>> THEN Return(<<FLUSH, best_flush>>)
        ELSE IF straight_high # 0 THEN Return(<<STRAIGHT, <<straight_high>>>>)
        ELSE IF trip_ranks # <<>>
        THEN LET trip == trip_ranks[1]
                 kickers == _collect_high_cards(rank_counts, {trip}, 2)
             IN  Return(<<THREE_OF_KIND, <<trip>> \o kickers>>)
        ELSE IF Len(pair_ranks) >= 2
        THEN LET high_pair == pair_ranks[1]
                 low_pair == pair_ranks[2]
                 kickers == _collect_high_cards(rank_counts, {high_pair, low_pair}, 1)
             IN  IF kickers = <<>> THEN Raise("IndexError")
                 ELSE Return(<<TWO_PAIR, <<high_pair, low_pair, kickers[1]>>>>)
        ELSE IF pair_ranks # <<>>
        THEN LET pair == pair_ranks[1]
                 kickers == _collect_high_cards(rank_counts, {pair}, 3)
             IN  Return(<<ONE_PAIR, <<pair>> \o kickers>>)
        ELSE Return(<<HIGH_CARD, _collect_high_cards(rank_counts, {}, 5)>>)

evaluate_hand_in(table, hand) ==
    IF ~(5 <= Len(hand) /\ Len(hand) <= 7) THEN Raise("ValueError")
    ELSE IF Len(hand) = 5 THEN _evaluate_5(hand)
    ELSE _evaluate_best_5_fast_in(table, hand)

\* the classifier evaluate_hand hands the cards to, "none" when it raises
\* before calling one
ClassifierCalled(hand) ==
    IF ~(5 <= Len(hand) /\ Len(hand) <= 7) THEN "none"
    ELSE IF Len(hand) = 5 THEN "_evaluate_5"
    ELSE "_evaluate_best_5_fast"

\* mutant: only the category is compared
ScoreLT_category_only(a, b) == a[1] < b[1]

\* mutant: the kickers are compared before the category
ScoreLT_kickers_first(a, b) == TupleLT(a[2], b[2]) \/ (a[2] = b[2] /\ a[1] < b[1])

\* score comparison a < b: Python's comparison of (category, kickers) tuples
ScoreLT(a, b) == a[1] < b[1] \/ (a[1] = b[1] /\ TupleLT(a[2], b[2]))

----------------------------------------------------------------------------
(* The caller: builds a list of distinct cards and calls evaluate_hand *)

S == "spades"
H == "hearts"
D == "diamonds"
C == "clubs"

Pool ==
    << Card(5, H),  Card(14, S), Card(2, S),  Card(13, S), Card(14, D),
       Card(3, S),  Card(5, S),  Card(12, S), Card(14, H), Card(4, S),
       Card(10, S), Card(5, D),  Card(11, S), Card(6, S),  Card(14, C),
       Card(2, H),  Card(13, H), Card(9, S),  Card(6, D),  Card(12, C) >>

PoolIndices == 1..Min2(PoolSize, Len(Pool))

NoResult == [raised |-> "not called", value |-> <<>>]

\* list.sort(key=lambda c: c.rank, reverse=True) on a list of cards: stable,
\* highest rank first
RECURSIVE InsertCardDesc(_, _)
InsertCardDesc(sorted, c) ==
    IF sorted = <<>> THEN <<c>>
    ELSE IF Head(sorted).rank >= c.rank THEN <<Head(sorted)>> \o InsertCardDesc(Tail(sorted), c)
    ELSE <<c>> \o sorted

RECURSIVE SortCardsFrom(_, _, _)
SortCardsFrom(hand, i, sorted) ==
    IF i > Len(hand) THEN sorted
    ELSE SortCardsFrom(hand, i + 1, InsertCardDesc(sorted, hand[i]))

(***************************************************************************)
(* The objects a call of evaluate_hand works on.  Python passes a list by  *)
(* reference: the parameter cards names the caller's list itself, and a    *)
(* statement that changes an object in place changes it for every name     *)
(* bound to it.  A call is the sequence of statements it executes that     *)
(* bind a name to a list or dict or change one in place; names of numbers, *)
(* booleans, strings and tuples are left out, these values cannot be       *)
(* changed in place.  A name is written function.name.                     *)
(***************************************************************************)

\* name = other: an argument passed, a loop target, an assignment of an
\* existing object
Bind(name, other) == [kind |-> "bind", name |-> name, arg |-> other]

\* name = a list or dict built by the right-hand side: a literal, a
\* comprehension, sorted(...), Counter(...)
New(name, value) == [kind |-> "new", name |-> name, arg |-> value]

\* name[index] += operand (op "add"), name[index] |= operand (op "or")
AugItem(name, index, op, operand) ==
    [kind |-> "augitem", name |-> name, arg |-> <<index, op, operand>>]

\* name.append(value)
ListAppend(name, value) == [kind |-> "append", name |-> name, arg |-> value]

\* name.extend(values)
ListExtend(name, values) == [kind |-> "extend", name |-> name, arg |-> values]

\* name.sort(key=lambda c: c.rank, reverse=True), a statement the evaluator
\* does not have
ListSort(name) == [kind |-> "sort", name |-> name, arg |-> <<>>]

\* the objects and names when the caller calls evaluate_hand(cards): object
\* 1 is the caller's list, object 2 the module-level list
CallState(list, table) ==
    [heap |-> <<list, table>>,
     env |-> ("caller.cards" :> 1) @@ ("STRAIGHT_BITMASKS" :> 2),
     at |-> 1]

\* one statement executed on the objects st.heap under the names st.env; the
\* call then stands at its next statement
ExecStmt(st, s) ==
    LET id == st.env[s.name]
        old == st.heap[id]
        done ==
            IF s.kind = "bind"
            THEN [st EXCEPT !.env = (s.name :> st.env[s.arg]) @@ st.env]
            ELSE IF s.kind = "new"
            THEN [st EXCEPT !.heap = Append(st.heap, s.arg),
                            !.env = (s.name :> (Len(st.heap) + 1)) @@ st.env]
            ELSE IF s.kind = "augitem"
            THEN [st EXCEPT !.heap[id] =
                     [old EXCEPT ![s.arg[1]] =
                         IF s.arg[2] = "add" THEN @ + s.arg[3] ELSE BitOr(@, s.arg[3])]]
            ELSE IF s.kind = "append"
            THEN [st EXCEPT !.heap[id] = Append(old, s.arg)]
            ELSE IF s.kind = "extend"
            THEN [st EXCEPT !.heap[id] = old \o s.arg]
            ELSE [st EXCEPT !.heap[id] = SortCardsFrom(old, 1, <<>>)]
    IN  [done EXCEPT !.at = st.at + 1]

\* the statements of a call in the order the call executes them
RECURSIVE RunStmts(_, _)
RunStmts(st, stmts) ==
    IF st.at > Len(stmts) THEN st ELSE RunStmts(ExecStmt(st, stmts[st.at]), stmts)

\* _check_straight(ranks) as _evaluate_5 calls it: unique_ranks =
\* sorted(set(ranks))
_check_straight_stmts(ranks) ==
    << Bind("_check_straight.ranks", "_evaluate_5.ranks"),
       New("_check_straight.unique_ranks", SortedSet(ranks)) >>

\* _evaluate_5(cards): every list is built anew from the cards
_evaluate_5_stmts(hand) ==
    LET ranks == [i \in 1..Len(hand) |-> hand[i].rank]
        suits == [i \in 1..Len(hand) |-> hand[i].suit]
        rank_counts == CounterItems(ranks)
        counts_sorted == SortedCounts(rank_counts)
        score == _evaluate_5(hand)
        category == IF score.raised = "none" THEN score.value[1] ELSE HIGH_CARD - 1
    IN  << Bind("_evaluate_5.cards", "evaluate_hand.cards"),
           New("_evaluate_5.ranks", ranks),
           New("_evaluate_5.suits", suits),
           New("_evaluate_5.rank_counts", rank_counts),
           New("_evaluate_5.counts_sorted", counts_sorted) >>
        \o _check_straight_stmts(ranks)
        \o (IF category \in {FLUSH, HIGH_CARD}
            THEN << New("_evaluate_5.sorted(ranks)", SortedDesc(ranks)) >>
            ELSE IF category \in {THREE_OF_KIND, ONE_PAIR}
            THEN LET remaining == [k \in 1..(Len(counts_sorted) - 1) |-> counts_sorted[k + 1][1]]
                 IN  << New("_evaluate_5.remaining", remaining),
                        New("_evaluate_5.sorted(remaining)", SortedDesc(remaining)) >>
            ELSE <<>>)

\* the loop of _collect_high_cards from rank downward, have cards collected
\* so far: collected.extend([rank] * take)
RECURSIVE CollectStmtsFrom(_, _, _, _, _)
CollectStmtsFrom(rank_counts, exclude, needed, rank, have) ==
    IF rank < 2 THEN <<>>
    ELSE IF rank \in exclude \/ rank_counts[rank] = 0
    THEN CollectStmtsFrom(rank_counts, exclude, needed, rank - 1, have)
    ELSE LET take == Min2(rank_counts[rank], needed - have)
             extend == ListExtend("_collect_high_cards.collected", [i \in 1..take |-> rank])
         IN  IF have + take = needed THEN <<extend>>
             ELSE <<extend>> \o CollectStmtsFrom(rank_counts, exclude, needed, rank - 1, have + take)

\* _collect_high_cards(rank_counts, exclude, needed) as _evaluate_best_5_fast
\* calls it
_collect_high_cards_stmts(rank_counts, exclude, needed) ==
    << Bind("_collect_high_cards.rank_counts", "_evaluate_best_5_fast.rank_counts"),
       New("_collect_high_cards.exclude", exclude),
       New("_collect_high_cards.collected", <<>>) >>
    \o CollectStmtsFrom(rank_counts, exclude, needed, 14, 0)

\* for card in cards: the three statements of the body that change a list
\* or dict
RECURSIVE CardLoopStmts(_, _)
CardLoopStmts(hand, i) ==
    IF i > Len(hand) THEN <<>>
    ELSE << AugItem("_evaluate_best_5_fast.rank_counts", hand[i].rank, "add", 1),
            ListAppend("_evaluate_best_5_fast.suit_ranks." \o hand[i].suit, hand[i].rank),
            AugItem("_evaluate_best_5_fast.suit_masks", hand[i].suit, "or", Shl1(hand[i].rank)) >>
         \o CardLoopStmts(hand, i + 1)

\* for suit, ranks in suit_ranks.items(): ranks names the list of the suit;
\* the loop ends at the return of a straight flush, found with the
\* module-level list at the value table
RECURSIVE FlushLoopStmts(_, _, _, _)
FlushLoopStmts(table, k, suit_ranks, suit_masks) ==
    IF k > Len(SUITS) THEN <<>>
    ELSE LET suit == SUITS[k]
             bind == Bind("_evaluate_best_5_fast.ranks", "_evaluate_best_5_fast.suit_ranks." \o suit)
         IN  IF Len(suit_ranks[suit]) < 5
             THEN <<bind>> \o FlushLoopStmts(table, k + 1, suit_ranks, suit_masks)
             ELSE IF _highest_straight_in(table, suit_masks[suit]) # 0 THEN <<bind>>
             ELSE << bind,
                     New("_evaluate_best_5_fast.sorted(ranks)", SortedDesc(suit_ranks[suit])) >>
                  \o FlushLoopStmts(table, k + 1, suit_ranks, suit_masks)

\* _evaluate_best_5_fast(cards): the lists and dicts it builds are its own,
\* it fills them from the cards; kickers names the list _collect_high_cards
\* returned (kicker, of four of a kind and two pair, names a number).  The
\* branch taken is the one the module-level list at the value table gives
_evaluate_best_5_fast_stmts(table, hand) ==
    LET n == Len(hand)
        all_ranks == [i \in 1..n |-> hand[i].rank]
        rank_counts == [r \in 0..14 |-> Cardinality({i \in 1..n : hand[i].rank = r})]
        suit_ranks == [s \in {SUITS[k] : k \in 1..Len(SUITS)} |-> SuitRanks(hand, s)]
        suit_masks == [s \in {SUITS[k] : k \in 1..Len(SUITS)} |-> RanksMask(suit_ranks[s])]
        trip_ranks == RanksDescending({r \in 2..14 : rank_counts[r] >= 3})
        pair_ranks == RanksDescending({r \in 2..14 : rank_counts[r] >= 2})
        quad_ranks == RanksDescending({r \in 2..14 : rank_counts[r] = 4})
        flushes == FlushLoopIn(table, 1, suit_ranks, suit_masks, <<>>)
        other_pairs == IF trip_ranks = <<>> THEN <<>>
                       ELSE SelectSeq(pair_ranks, LAMBDA r : r # trip_ranks[1])
        kickers == Bind("_evaluate_best_5_fast.kickers", "_collect_high_cards.collected")
        full_house == trip_ranks # <<>> /\ (Len(trip_ranks) > 1 \/ other_pairs # <<>>)
    IN  << Bind("_evaluate_best_5_fast.cards", "evaluate_hand.cards"),
           New("_evaluate_best_5_fast.rank_counts", [r \in 0..14 |-> 0]) >>
        \o [k \in 1..Len(SUITS) |-> New("_evaluate_best_5_fast.suit_ranks." \o SUITS[k], <<>>)]
        \o << New("_evaluate_best_5_fast.suit_masks", [s \in {SUITS[k] : k \in 1..Len(SUITS)} |-> 0]) >>
        \o CardLoopStmts(hand, 1)
        \o << New("_evaluate_best_5_fast.trip_ranks", trip_ranks),
              New("_evaluate_best_5_fast.pair_ranks", pair_ranks) >>
        \o FlushLoopStmts(table, 1, suit_ranks, suit_masks)
        \o (IF flushes.returned THEN <<>>
            ELSE IF quad_ranks # <<>>
            THEN _collect_high_cards_stmts(rank_counts, {quad_ranks[1]}, 1)
            ELSE IF full_house THEN <<>>
            ELSE IF flushes.best_flush # <<>> THEN <<>>
            ELSE IF _highest_straight_in(table, RanksMask(all_ranks)) # 0 THEN <<>>
            ELSE IF trip_ranks # <<>>
            THEN _collect_high_cards_stmts(rank_counts, {trip_ranks[1]}, 2) \o <<kickers>>
            ELSE IF Len(pair_ranks) >= 2
            THEN _collect_high_cards_stmts(rank_counts, {pair_ranks[1], pair_ranks[2]}, 1)
            ELSE IF pair_ranks # <<>>
            THEN _collect_high_cards_stmts(rank_counts, {pair_ranks[1]}, 3) \o <<kickers>>
            ELSE _collect_high_cards_stmts(rank_counts, {}, 5) \o <<kickers>>)

\* mutant: evaluate_hand sorts the list it is given before it looks at it
evaluate_hand_stmts_sorts_first(table, hand) ==
    << Bind("evaluate_hand.cards", "caller.cards"), ListSort("evaluate_hand.cards") >>
    \o (IF ~(5 <= Len(hand) /\ Len(hand) <= 7) THEN <<>>
        ELSE IF Len(hand) = 5 THEN _evaluate_5_stmts(hand)
        ELSE _evaluate_best_5_fast_stmts(table, hand))

\* evaluate_hand(cards): the parameter names the caller's list; table is the
\* value of the module-level list when the call is made
evaluate_hand_stmts(table, hand) ==
    << Bind("evaluate_hand.cards", "caller.cards") >>
    \o (IF ~(5 <= Len(hand) /\ Len(hand) <= 7) THEN <<>>
        ELSE IF Len(hand) = 5 THEN _evaluate_5_stmts(hand)
        ELSE _evaluate_best_5_fast_stmts(table, hand))

\* the objects and names when evaluate_hand(list) has returned or raised,
\* the module-level list being table when it is called
AfterCall(list, table) ==
    RunStmts(CallState(list, table), evaluate_hand_stmts(table, list))

\* the object a name refers to after the call
ObjectAfterCall(list, table, name) ==
    LET st == AfterCall(list, table) IN st.heap[st.env[name]]

\* the variables of the parts that are not exercised
EvalIdle ==
    /\ cards = <<>>
    /\ result = NoResult
    /\ classifier = "none"
    /\ pc = "idle"
    /\ called = 0
    /\ firsts = <<>>
    /\ hands = <<>>
    /\ seen = {}
    /\ bitmasks = STRAIGHT_BITMASKS

CardIdle == made = <<>> /\ acts = <<>>

NoDeckOp ==
    [op |-> "none", n |-> 0, raised |-> "none", value |-> <<>>, before |-> <<>>, count |-> 0,
     initial |-> <<>>]

DeckIdle ==
    /\ deck = <<>>
    /\ drawn = <<>>
    /\ last = NoDeckOp

NoBlinds ==
    [raised |-> "not called", sb_idx |-> 0, bb_idx |-> 0, sb_amount |-> 0,
     bb_amount |-> 0, before |-> <<>>, calls |-> 0]

NotDetected == [called |-> FALSE, check |-> <<FALSE, 0>>, highest |-> 0]

StraightIdle ==
    /\ sranks = <<>>
    /\ sfound = NotDetected

GameIdle ==
    /\ players = <<>>
    /\ button = 0
    /\ street = "preflop"
    /\ board = <<>>
    /\ pot = 0
    /\ to_act = "None"
    /\ current_bet = 0
    /\ blinds = NoBlinds
    /\ steps = 0

Init ==
    /\ cards = <<>>
    /\ result = NoResult
    /\ classifier = "none"
    /\ pc = "deal"
    /\ called = 0
    /\ firsts = <<>>
    /\ hands = <<>>
    /\ seen = {}
    /\ bitmasks = STRAIGHT_BITMASKS
    /\ CardIdle
    /\ DeckIdle
    /\ GameIdle
    /\ StraightIdle

\* the caller appends the i-th card of the pool to its list
Deal(i) ==
    /\ pc = "deal"
    /\ Len(cards) < MaxCards
    /\ \A k \in 1..Len(cards) : \E j \in 1..(i - 1) : Pool[j] = cards[k]
    /\ cards' = Append(cards, Pool[i])
    /\ UNCHANGED <<result, classifier, pc, called, firsts, hands, seen, bitmasks>>
    /\ UNCHANGED <<cardVars, deckVars, gameVars, straightVars>>

\* the caller calls evaluate_hand(cards)
Evaluate ==
    /\ pc = "deal"
    /\ result' = evaluate_hand(cards)
    /\ classifier' = ClassifierCalled(cards)
    /\ pc' = "returned"
    /\ LET after == AfterCall(cards, bitmasks) IN
          /\ cards' = after.heap[1]
          /\ bitmasks' = after.heap[2]
    /\ seen' = IF result'.raised = "none" THEN seen \cup {result'.value[1]} ELSE seen
    /\ UNCHANGED <<called, firsts, hands>>
    /\ UNCHANGED <<cardVars, deckVars, gameVars, straightVars>>

Next ==
    \/ \E i \in PoolIndices : Deal(i)
    \/ Evaluate

Spec == Init /\ [][Next]_vars

----------------------------------------------------------------------------
(* Definitions used to state the properties *)

Returned == pc = "returned"

HandSizes == 5..7

\* the cards of hand at the positions idx, in the order of hand
SubHand(hand, idx) ==
    [p \in 1..Cardinality(idx) |->
        hand[CHOOSE i \in idx : Cardinality({j \in idx : j < i}) = p - 1]]

\* the 5-card subsets of a hand
FiveCardSubHands(hand) ==
    {SubHand(hand, idx) : idx \in {T \in SUBSET (1..Len(hand)) : Cardinality(T) = 5}}

\* score is the maximum of the 5-card classifier over the 5-card subsets
IsBestOfSubsets(hand, score) ==
    LET returns == {_evaluate_5(sub) : sub \in FiveCardSubHands(hand)}
    IN  /\ \A r \in returns : r.raised = "none"
        /\ Return(score) \in returns
        /\ \A r \in returns : ~ScoreLT(score, r.value)

\* C1: for a hand of 6 or 7 distinct cards evaluate_hand returns the maximum,
\* by category and then kickers, of _evaluate_5 over all 5-card subsets
C1_BestOfSubsets ==
    (Returned /\ Len(cards) \in {6, 7}) =>
        /\ result.raised = "none"
        /\ IsBestOfSubsets(cards, result.value)

\* a 7-card hand was scored and some 5-card subset scores strictly less
C1_Witness ==
    /\ Returned
    /\ Len(cards) = 7
    /\ result.raised = "none"
    /\ \E sub \in FiveCardSubHands(cards) : ScoreLT(_evaluate_5(sub).value, result.value)
    /\ result.value[1] = FULL_HOUSE

\* the hand with the cards at positions i and j exchanged
Swapped(hand, i, j) ==
    [k \in 1..Len(hand) |-> IF k = i THEN hand[j] ELSE IF k = j THEN hand[i] ELSE hand[k]]

Reversed(hand) == [k \in 1..Len(hand) |-> hand[Len(hand) + 1 - k]]

Rotated(hand) == [k \in 1..Len(hand) |-> hand[(k % Len(hand)) + 1]]

Perms5 == Permutations(1..5)

\* The reorderings of a hand that are tried: every permutation of a 5-card
\* hand; of a 6 or 7 card hand the exchanges of two neighbouring cards and
\* of the first and last card (which generate every permutation), the
\* reversal and the rotation by one.
Reorderings(hand) ==
    IF Len(hand) = 5
    THEN {[k \in 1..5 |-> hand[f[k]]] : f \in Perms5}
    ELSE {Swapped(hand, i, i + 1) : i \in 1..(Len(hand) - 1)}
            \cup {Swapped(hand, 1, Len(hand)), Reversed(hand), Rotated(hand)}

\* C2: the order of the cards in the list does not affect the score: every
\* reordering of an evaluated hand of 5 to 7 cards gets the same score
C2_OrderIndependent ==
    (Returned /\ Len(cards) \in HandSizes) =>
        \A other \in Reorderings(cards) : evaluate_hand(other) = result

\* a flush was scored whose cards were not passed in descending rank order
C2_Witness ==
    /\ Returned
    /\ Len(cards) \in HandSizes
    /\ result.raised = "none"
    /\ result.value[1] = FLUSH
    /\ \E i \in 1..(Len(cards) - 1) : cards[i].rank < cards[i + 1].rank
    /\ \E other \in Reorderings(cards) : other # cards

IsScore(v) ==
    /\ Len(v) = 2
    /\ v[1] \in (0 - 1)..8
    /\ Len(v[2]) >= 1
    /\ \A k \in 1..Len(v[2]) : v[2][k] \in RANKS

\* C3: evaluate_hand is total on hands of 5 to 7 distinct cards: it raises
\* nothing (no index out of range) and returns one score
C3_Total ==
    (Returned /\ Len(cards) \in HandSizes) =>
        /\ result.raised = "none"
        /\ IsScore(result.value)

\* four of a kind with only 2s left for the kicker: the kicker list that is
\* indexed holds the lowest rank
C3_Witness ==
    /\ Returned
    /\ Len(cards) = 6
    /\ result = Return(<<FOUR_OF_KIND, <<14, 2>>>>)

\* C4: with fewer than 5 or more than 7 cards evaluate_hand raises
\* ValueError before any classifier is called and returns no score
C4_InvalidHandSize ==
    (Returned /\ Len(cards) \notin HandSizes) =>
        /\ result = Raise("ValueError")
        /\ classifier = "none"

\* evaluate_hand was called with 8 cards
C4_Witness ==
    /\ Returned
    /\ Len(cards) = 8
    /\ result.raised = "ValueError"

----------------------------------------------------------------------------
(* The priority rules of the 5-card classifier, stated on the multiset of
   ranks and the set of suits of the hand *)

RankCount(hand, r) == Cardinality({i \in 1..Len(hand) : hand[i].rank = r})

RanksOfCount(hand, k) == {r \in RANKS : RankCount(hand, r) = k}

Descending(set) ==
    [p \in 1..Cardinality(set) |->
        CHOOSE r \in set : Cardinality({q \in set : q > r}) = p - 1]

OneSuit(hand) == \A i, j \in 1..Len(hand) : hand[i].suit = hand[j].suit

\* the high rank of the straight made by five cards, 0 when they make none
StraightHighOf(hand) ==
    LET held == {hand[i].rank : i \in 1..Len(hand)}
    IN  IF held = {14, 2, 3, 4, 5} THEN 5
        ELSE IF \E h \in 6..14 : held = (h - 4)..h
        THEN CHOOSE h \in 6..14 : held = (h - 4)..h
        ELSE 0

PriorityRules(hand) ==
    LET quads == RanksOfCount(hand, 4)
        trips == RanksOfCount(hand, 3)
        pairs == RanksOfCount(hand, 2)
        singles == RanksOfCount(hand, 1)
        high == StraightHighOf(hand)
    IN  IF OneSuit(hand) /\ high # 0
        THEN IF high = 14 THEN <<ROYAL_FLUSH, <<14>>>> ELSE <<STRAIGHT_FLUSH, <<high>>>>
        ELSE IF quads # {} THEN <<FOUR_OF_KIND, Descending(quads) \o Descending(singles)>>
        ELSE IF trips # {} /\ pairs # {}
        THEN <<FULL_HOUSE, Descending(trips) \o Descending(pairs)>>
        ELSE IF OneSuit(hand) THEN <<FLUSH, Descending(singles)>>
        ELSE IF high # 0 THEN <<STRAIGHT, <<high>>>>
        ELSE IF trips # {} THEN <<THREE_OF_KIND, Descending(trips) \o Descending(singles)>>
        ELSE IF Cardinality(pairs) = 2
        THEN <<TWO_PAIR, Descending(pairs) \o Descending(singles)>>
        ELSE IF Cardinality(pairs) = 1
        THEN <<ONE_PAIR, Descending(pairs) \o Descending(singles)>>
        ELSE <<HIGH_CARD, Descending(singles)>>

\* C5: for a hand of exactly 5 distinct cards the classifier returns the
\* category and kickers of the first priority rule that applies
C5_PriorityRules ==
    (Returned /\ Len(cards) = 5) => result = Return(PriorityRules(cards))

\* a 5-card two pair was scored whose lower pair came first in the list
C5_Witness ==
    /\ Returned
    /\ Len(cards) = 5
    /\ result = Return(<<TWO_PAIR, <<14, 5, 13>>>>)
    /\ cards[1].rank = 5

IsWheel(hand) == Len(hand) = 5 /\ {hand[i].rank : i \in 1..Len(hand)} = {14, 2, 3, 4, 5}

\* C6: the 5-card hand A-2-3-4-5 is a Straight with kickers (5,) when the
\* suits are mixed and a Straight Flush with kickers (5,) when suited
C6_Wheel ==
    (Returned /\ IsWheel(cards)) =>
        /\ ~OneSuit(cards) => result = Return(<<STRAIGHT, <<5>>>>)
        /\ OneSuit(cards) => result = Return(<<STRAIGHT_FLUSH, <<5>>>>)

\* the suited wheel was scored
C6_Witness ==
    /\ Returned
    /\ IsWheel(cards)
    /\ OneSuit(cards)
    /\ result.value = <<STRAIGHT_FLUSH, <<5>>>>

\* the mixed-suit wheel was scored
C6_WitnessMixed ==
    /\ Returned
    /\ IsWheel(cards)
    /\ ~OneSuit(cards)
    /\ result.value = <<STRAIGHT, <<5>>>>

KickerLength(category) ==
    IF category \in {STRAIGHT, STRAIGHT_FLUSH, ROYAL_FLUSH} THEN 1
    ELSE IF category \in {FOUR_OF_KIND, FULL_HOUSE} THEN 2
    ELSE IF category \in {FLUSH, HIGH_CARD} THEN 5
    ELSE IF category \in {THREE_OF_KIND, TWO_PAIR} THEN 3
    ELSE 4

\* C7: the kicker tuple of a returned score has the length fixed by its
\* category (1, 2, 5, 3, 3 or 4)
C7_KickerLength ==
    (Returned /\ Len(cards) \in HandSizes) =>
        /\ result.raised = "none"
        /\ Len(result.value[2]) = KickerLength(result.value[1])

\* a 7-card three of a kind was scored: two kickers chosen among four cards
C7_Witness ==
    /\ Returned
    /\ Len(cards) = 7
    /\ result.raised = "none"
    /\ result.value[1] = THREE_OF_KIND
    /\ Len(result.value[2]) = 3

----------------------------------------------------------------------------
(* Scores that are compared with one another *)

RemovedAt(hand, i) ==
    [k \in 1..(Len(hand) - 1) |-> IF k < i THEN hand[k] ELSE hand[k + 1]]

\* the score returned for the evaluated hand together with the scores
\* evaluate_hand returns for the same hand with one card left out
ScoresAround ==
    {result.value} \cup {evaluate_hand(RemovedAt(cards, i)).value : i \in 1..Len(cards)}

\* one hand of each category
Representatives ==
    << <<Card(14, S), Card(13, S), Card(12, S), Card(11, S), Card(10, S)>>,
       <<Card(6, S), Card(5, S), Card(4, S), Card(3, S), Card(2, S)>>,
       <<Card(5, H), Card(5, S), Card(5, D), Card(5, C), Card(2, S)>>,
       <<Card(2, H), Card(2, S), Card(2, D), Card(14, S), Card(14, H)>>,
       <<Card(13, S), Card(11, S), Card(6, S), Card(3, S), Card(2, S)>>,
       <<Card(14, D), Card(2, S), Card(3, S), Card(4, S), Card(5, H)>>,
       <<Card(5, H), Card(5, S), Card(5, D), Card(14, S), Card(13, S)>>,
       <<Card(2, H), Card(2, S), Card(5, D), Card(5, S), Card(14, S)>>,
       <<Card(2, H), Card(2, S), Card(14, D), Card(13, S), Card(12, S)>>,
       <<Card(14, D), Card(13, S), Card(12, S), Card(11, S), Card(6, S)>> >>

RepresentativeScores ==
    {evaluate_hand(Representatives[k]).value : k \in 1..Len(Representatives)}

\* a comes before b when its category is lower or, the categories being
\* equal, at the first position where the kickers differ a's is lower
FirstDifferenceDecides(a, b) ==
    \/ a[1] < b[1]
    \/ /\ a[1] = b[1]
       /\ \E k \in 1..Len(a[2]) :
             /\ k <= Len(b[2])
             /\ a[2][k] < b[2][k]
             /\ \A j \in 1..(k - 1) : a[2][j] = b[2][j]

\* C8: comparison of returned scores is a strict total order: category
\* first, then the kickers element by element with the first difference
\* deciding; irreflexive, antisymmetric, transitive, and two different
\* scores are always ordered
C8_StrictTotalOrder ==
    (Returned /\ Len(cards) \in {6, 7}) =>
        LET scores == ScoresAround
        IN  \A a, b \in scores :
                /\ ScoreLT(a, b) <=> FirstDifferenceDecides(a, b)
                /\ ~ScoreLT(a, a)
                /\ ScoreLT(a, b) => ~ScoreLT(b, a)
                /\ a # b => (ScoreLT(a, b) \/ ScoreLT(b, a))
                /\ \A c \in scores : (ScoreLT(a, b) /\ ScoreLT(b, c)) => ScoreLT(a, c)

\* three scores of one category were compared, two of them decided by a
\* kicker after the first
C8_Witness ==
    /\ Returned
    /\ Len(cards) = 7
    /\ LET scores == ScoresAround
       IN  \E a, b, c \in scores :
              /\ a[1] = b[1] /\ b[1] = c[1]
              /\ ScoreLT(a, b) /\ ScoreLT(b, c)
              /\ a[2][1] = b[2][1]

\* the categories from weakest to strongest
CategoryOrder ==
    <<HIGH_CARD, ONE_PAIR, TWO_PAIR, THREE_OF_KIND, STRAIGHT, FLUSH, FULL_HOUSE,
      FOUR_OF_KIND, STRAIGHT_FLUSH, ROYAL_FLUSH>>

\* C9: the category values are strictly ordered from High Card up to Royal
\* Flush, and of two scores of different categories the one of the higher
\* category is the greater whatever the kickers are
C9_CategoryMonotone ==
    /\ \A i, j \in 1..Len(CategoryOrder) : i < j => CategoryOrder[i] < CategoryOrder[j]
    /\ (Returned /\ Len(cards) \in {6, 7}) =>
          LET scores == ScoresAround
              others == scores \cup RepresentativeScores
          IN  \A a \in scores : \A b \in others :
                  a[1] < b[1] => (ScoreLT(a, b) /\ ~ScoreLT(b, a))

\* a score was compared with a score of a higher category whose kickers
\* are smaller
C9_Witness ==
    /\ Returned
    /\ Len(cards) = 7
    /\ LET scores == ScoresAround
           others == scores \cup RepresentativeScores
       IN  \E a \in scores : \E b \in others :
              /\ a[1] < b[1]
              /\ TupleLT(b[2], a[2])
              /\ ScoreLT(a, b)

\* the hand holds A, K, Q, J, 10 of one suit
HoldsRoyal(hand) ==
    \E k \in 1..Len(SUITS) : \A r \in 10..14 :
        \E i \in 1..Len(hand) : hand[i] = Card(r, SUITS[k])

\* C10: Royal Flush is returned exactly for the hands that hold A, K, Q, J,
\* 10 of one suit, with kickers (14,); a Straight Flush has one kicker in
\* 5..13; the two are distinct tiers
C10_RoyalFlushTier ==
    /\ ROYAL_FLUSH # STRAIGHT_FLUSH
    /\ (Returned /\ Len(cards) \in HandSizes) =>
          /\ result.raised = "none"
          /\ result.value[1] = ROYAL_FLUSH <=> HoldsRoyal(cards)
          /\ result.value[1] = ROYAL_FLUSH => result.value[2] = <<14>>
          /\ result.value[1] = STRAIGHT_FLUSH =>
                (Len(result.value[2]) = 1 /\ result.value[2][1] \in 5..13)

\* a 7-card hand holding the royal flush and two more cards was scored
C10_Witness ==
    /\ Returned
    /\ Len(cards) = 7
    /\ HoldsRoyal(cards)
    /\ result = Return(<<ROYAL_FLUSH, <<14>>>>)

\* a 7-card hand was scored Straight Flush
C10_WitnessStraightFlush ==
    /\ Returned
    /\ Len(cards) = 7
    /\ ~HoldsRoyal(cards)
    /\ result.raised = "none"
    /\ result.value[1] = STRAIGHT_FLUSH

(***************************************************************************)
(* A caller that evaluates hands again and again, as the loop of           *)
(* test_perf.py does: each iteration passes one list of cards to           *)
(* evaluate_hand.  The caller keeps its lists and may pass one again.      *)
(***************************************************************************)

\* the number of different hands the repeated caller passes
NumSamples == 12

\* the hands passed: one per category, then 6 and 7 cards, then lists of a
\* length evaluate_hand rejects
Samples ==
    Representatives \o
    << <<Card(2, S), Card(14, H), Card(5, D), Card(14, S), Card(5, S), Card(9, S)>>,
       <<Card(3, S), Card(14, S), Card(12, C), Card(13, S), Card(10, S), Card(12, S), Card(11, S)>>,
       <<Card(6, D), Card(14, C), Card(2, H), Card(9, S)>>,
       <<Card(4, S), Card(6, D), Card(3, S), Card(14, H), Card(5, S), Card(2, S), Card(13, H), Card(9, S)>>,
       <<Card(9, S), Card(4, S), Card(14, S), Card(6, S), Card(2, S), Card(12, S)>> >>

SampleIndices == 1..Min2(NumSamples, Len(Samples))

CallsInit ==
    /\ cards = <<>>
    /\ result = NoResult
    /\ classifier = "none"
    /\ pc = "calls"
    /\ called = 0
    /\ firsts = [k \in SampleIndices |-> NoResult]
    /\ hands = [k \in SampleIndices |-> Samples[k]]
    /\ seen = {}
    /\ bitmasks = STRAIGHT_BITMASKS
    /\ CardIdle
    /\ DeckIdle
    /\ GameIdle
    /\ StraightIdle

\* AfterCall on the sample lists as constructed, with the module-level list
\* as built: the value Call uses when list and table are still so
SampleAfterCall == [k \in SampleIndices |-> AfterCall(Samples[k], STRAIGHT_BITMASKS)]

\* one call: evaluate_hand(hands[k]) on the k-th list the caller holds,
\* reading the module-level list as the calls before left it.  The caller's
\* list and the module-level list afterwards are what the statements of the
\* call left of them
Call(k) ==
    /\ pc = "calls"
    /\ called' = k
    /\ result' = evaluate_hand_in(bitmasks, hands[k])
    /\ classifier' = ClassifierCalled(hands[k])
    /\ LET after == IF hands[k] = Samples[k] /\ bitmasks = STRAIGHT_BITMASKS
                     THEN SampleAfterCall[k]
                     ELSE AfterCall(hands[k], bitmasks)
       IN
          /\ cards' = after.heap[1]
          /\ hands' = [hands EXCEPT ![k] = after.heap[1]]
          /\ bitmasks' = after.heap[2]
    /\ firsts' = IF firsts[k] = NoResult THEN [firsts EXCEPT ![k] = result'] ELSE firsts
    /\ seen' = IF result'.raised = "none" THEN seen \cup {result'.value[1]} ELSE seen
    /\ UNCHANGED pc
    /\ UNCHANGED <<cardVars, deckVars, gameVars, straightVars>>

CallsNext == \E k \in SampleIndices : Call(k)

SpecCalls == CallsInit /\ [][CallsNext]_vars

\* every category constant of the evaluator
Categories ==
    {HIGH_CARD, ONE_PAIR, TWO_PAIR, THREE_OF_KIND, STRAIGHT, FLUSH,
     FULL_HOUSE, FOUR_OF_KIND, STRAIGHT_FLUSH, ROYAL_FLUSH}

\* every representative hand has been evaluated
AllRepresentativesCalled ==
    \A k \in 1..Len(Representatives) : firsts[k] # NoResult

\* C11 as stated: the categories returned over valid hands never number
\* more than nine
C11_NineCategories == Cardinality(seen) <= 9

\* C11: evaluate_hand puts every valid hand into exactly one category,
\* high card through royal flush, and the category values returned over
\* all valid hands number ten: royal flush is a value of its own beside
\* straight flush
C11_TenCategories ==
    /\ seen \subseteq Categories
    /\ Cardinality(Categories) = 10
    /\ AllRepresentativesCalled => seen = Categories
    /\ (called # 0 /\ Len(Samples[called]) \in HandSizes) =>
          /\ result.raised = "none"
          /\ result.value[1] \in seen

\* all ten category values have been returned
C11_Witness ==
    /\ AllRepresentativesCalled
    /\ Cardinality(seen) = 10

\* C12: a call of evaluate_hand leaves the list passed to it as it was
\* (same cards, same order) and leaves STRAIGHT_BITMASKS as it was, and a
\* hand evaluated again, after any other calls, gives the result its first
\* evaluation gave.  The lists and STRAIGHT_BITMASKS are what the
\* statements of the calls so far left of them, and each call evaluates
\* the caller's list as it is by then
C12_Pure ==
    /\ bitmasks = STRAIGHT_BITMASKS
    /\ \A k \in SampleIndices : hands[k] = Samples[k]
    /\ called # 0 =>
          /\ cards = Samples[called]
          /\ result = firsts[called]

\* a 7-card hand not in rank order was evaluated again after every other
\* sample had been evaluated in between
C12_Witness ==
    /\ called = 12
    /\ \A k \in SampleIndices : firsts[k] # NoResult
    /\ result.raised = "none"
    /\ result = firsts[12]
    /\ cards = Samples[12]
    /\ cards # SortCardsFrom(cards, 1, <<>>)
    /\ ObjectAfterCall(cards, bitmasks, "evaluate_hand.cards") = cards
    /\ ObjectAfterCall(cards, bitmasks, "_evaluate_best_5_fast.suit_ranks.spades") # <<>>
    /\ ObjectAfterCall(cards, bitmasks, "_evaluate_best_5_fast.rank_counts")[14] > 0

(***************************************************************************)
(* engine/cards.py: constructing and comparing Card values.                *)
(***************************************************************************)

\* how far below 2 and above 14 the ranks passed to Card(...) range
RankSlack == 2

RankInputs == (2 - RankSlack)..(14 + RankSlack)

\* the four suit symbols and strings that are none of them
SuitInputs == <<C, D, H, S, "X", "H", "">>

\* mutant: __post_init__ without the suit check
Card_new_suit_unchecked(rank, suit) ==
    IF rank \notin RANKS THEN Raise("Invalid rank")
    ELSE Return(Card(rank, suit))

\* Card(rank, suit): the generated __init__ followed by __post_init__, which
\* checks the rank first and the suit second
Card_new(rank, suit) ==
    IF rank \notin RANKS THEN Raise("Invalid rank")
    ELSE IF \A k \in 1..Len(SUITS) : SUITS[k] # suit THEN Raise("Invalid suit")
    ELSE Return(Card(rank, suit))

\* the generated __eq__ of the dataclass: the field tuples are compared
Card_eq(a, b) == <<a.rank, a.suit>> = <<b.rank, b.suit>>

CardInit ==
    /\ made = <<>>
    /\ acts = <<>>
    /\ EvalIdle
    /\ DeckIdle
    /\ GameIdle
    /\ StraightIdle

\* one call Card(rank, suit), as the tests of TestCard make; the call
\* before it is kept beside it
Construct(rank, suit) ==
    /\ made' = (IF made = <<>> THEN <<>> ELSE <<made[Len(made)]>>)
                   \o <<[rank |-> rank, suit |-> suit, outcome |-> Card_new(rank, suit)]>>
    /\ UNCHANGED acts
    /\ UNCHANGED <<evalVars, deckVars, gameVars, straightVars>>

CardNext ==
    \E rank \in RankInputs : \E k \in 1..Len(SuitInputs) : Construct(rank, SuitInputs[k])

SpecCard == CardInit /\ [][CardNext]_vars

FourSuits == {C, D, H, S}

\* C13, as the specification states it: Card(rank, suit) succeeds exactly
\* when the rank is in 2..14 and the suit is one of the four suit symbols;
\* any other rank fails with an invalid-rank error and any other suit fails
\* with an invalid-suit error; every Card that exists has a legal rank and
\* suit; two cards are equal exactly when rank and suit match.  Card(0, "X")
\* has another suit and fails with the invalid-rank error.
C13_AnyOtherSuitInvalidSuit ==
    /\ \A i \in 1..Len(made) :
          LET e == made[i] IN
          /\ e.outcome.raised = "none" <=> (e.rank \in 2..14 /\ e.suit \in FourSuits)
          /\ e.rank \notin 2..14 => e.outcome.raised = "Invalid rank"
          /\ e.suit \notin FourSuits => e.outcome.raised = "Invalid suit"
          /\ e.outcome.raised = "none" =>
                /\ e.outcome.value.rank = e.rank
                /\ e.outcome.value.suit = e.suit
                /\ e.outcome.value.rank \in 2..14
                /\ e.outcome.value.suit \in FourSuits
    /\ \A i, j \in 1..Len(made) :
          (made[i].outcome.raised = "none" /\ made[j].outcome.raised = "none") =>
             (Card_eq(made[i].outcome.value, made[j].outcome.value)
                <=> (made[i].rank = made[j].rank /\ made[i].suit = made[j].suit))

\* C13, amended: Card(rank, suit) succeeds exactly when the rank is in 2..14
\* and the suit is one of the four suit symbols; a rank outside 2..14 fails
\* with an invalid-rank error whatever the suit is, also when the suit is
\* illegal too; a suit outside the four fails with an invalid-suit error when
\* the rank is in 2..14; every Card that exists has a legal rank and suit;
\* two cards are equal exactly when rank and suit match
C13_CardConstruction ==
    /\ \A i \in 1..Len(made) :
          LET e == made[i] IN
          /\ e.outcome.raised = "none" <=> (e.rank \in 2..14 /\ e.suit \in FourSuits)
          /\ e.rank \notin 2..14 => e.outcome.raised = "Invalid rank"
          /\ (e.rank \notin 2..14 /\ e.suit \notin FourSuits) => e.outcome.raised = "Invalid rank"
          /\ (e.rank \in 2..14 /\ e.suit \notin FourSuits) => e.outcome.raised = "Invalid suit"
          /\ e.outcome.raised = "none" =>
                /\ e.outcome.value.rank = e.rank
                /\ e.outcome.value.suit = e.suit
                /\ e.outcome.value.rank \in 2..14
                /\ e.outcome.value.suit \in FourSuits
    /\ \A i, j \in 1..Len(made) :
          (made[i].outcome.raised = "none" /\ made[j].outcome.raised = "none") =>
             (Card_eq(made[i].outcome.value, made[j].outcome.value)
                <=> (made[i].rank = made[j].rank /\ made[i].suit = made[j].suit))

\* a construction with a legal rank and an illegal suit failed with the
\* invalid-suit error, and the next one, Card(0, "X"), with an illegal rank
\* and an illegal suit, failed with the invalid-rank error
C13_Witness ==
    /\ Len(made) = 2
    /\ made[1].rank = 14
    /\ made[1].suit = "H"
    /\ made[1].outcome.raised = "Invalid suit"
    /\ made[2].rank = 0
    /\ made[2].suit = "X"
    /\ made[2].outcome.raised = "Invalid rank"

\* two constructions that succeeded and made equal cards
C13_WitnessEqual ==
    /\ Len(made) = 2
    /\ made[1].outcome.raised = "none"
    /\ made[2].outcome.raised = "none"
    /\ Card_eq(made[1].outcome.value, made[2].outcome.value)

(***************************************************************************)
(* engine/cards.py: the Deck.                                              *)
(***************************************************************************)

\* the number of Deck operations after construction
MaxDeckOps == 5

\* the largest small count passed to draw, beside the counts taken from the
\* length of the deck
MaxDraw == 2

\* the longest deck that is shuffled: shuffle is called on a deck of at most
\* this many cards, and then every outcome of random.shuffle is considered
MaxShuffleLen == 4

\* Deck(): [Card(rank, suit) for suit in SUITS for rank in RANKS]
FreshDeck ==
    [i \in 1..(Len(SUITS) * 13) |-> Card(2 + ((i - 1) % 13), SUITS[1 + ((i - 1) \div 13)])]

\* the cards handed to Deck(cards=...)
CustomCards == <<Card(14, "spades"), Card(13, "hearts"), Card(2, "clubs")>>

\* Deck(cards=cs): list(cards)
Deck_new(cs) == cs

\* the decks constructed: Deck(), and Deck(cards=...) on none, some or all of
\* the custom cards
DeckInputs == {FreshDeck} \cup {Deck_new(SubSeq(CustomCards, 1, k)) : k \in 0..Len(CustomCards)}

\* x[i], x[j] = x[j], x[i] with the 0-based indices of the code
ExchangeAt(x, i, j) == [x EXCEPT ![i + 1] = x[j + 1], ![j + 1] = x[i + 1]]

\* the loop of random.shuffle from index i down to 1: js[i] is the value of
\* randbelow(i + 1) at index i
RECURSIVE ShuffleLoop(_, _, _)
ShuffleLoop(x, i, js) ==
    IF i < 1 THEN x ELSE ShuffleLoop(ExchangeAt(x, i, js[i]), i - 1, js)

\* random.shuffle(self._cards) when the generator draws js: for i in
\* reversed(range(1, len(x))): j = randbelow(i + 1); x[i], x[j] = x[j], x[i]
Shuffled(cs, js) == ShuffleLoop(cs, Len(cs) - 1, js)

\* the draws of randbelow in one shuffle of a list of n cards: any value of
\* 0..i at every index i of 1..n-1
RandbelowDraws(n) ==
    {js \in [1..(n - 1) -> 0..(n - 1)] : \A i \in 1..(n - 1) : js[i] <= i}

\* mutant: draw without the check against the number of cards remaining
Deck_draw_unchecked_above(cs, n) ==
    IF n < 1
    THEN [raised |-> "Cannot draw", value |-> <<>>, cards |-> cs]
    ELSE [raised |-> "none",
          value |-> SubSeq(cs, 1, Min2(n, Len(cs))),
          cards |-> SubSeq(cs, Min2(n, Len(cs)) + 1, Len(cs))]

\* mutant: draw returns the first n cards and leaves them in the deck
Deck_draw_keeps_cards(cs, n) ==
    IF ~(1 <= n /\ n <= Len(cs))
    THEN [raised |-> "Cannot draw", value |-> <<>>, cards |-> cs]
    ELSE [raised |-> "none", value |-> SubSeq(cs, 1, n), cards |-> cs]

\* Deck.draw(n) on the list cs: what is raised or returned, and self._cards
\* afterwards
Deck_draw(cs, n) ==
    IF ~(1 <= n /\ n <= Len(cs))
    THEN [raised |-> "Cannot draw", value |-> <<>>, cards |-> cs]
    ELSE [raised |-> "none", value |-> SubSeq(cs, 1, n), cards |-> SubSeq(cs, n + 1, Len(cs))]

\* the counts passed to draw: small ones from -1 up, and the counts that
\* leave at most MaxShuffleLen cards, the whole deck and one more than the
\* whole deck included
DrawInputs == ((0 - 1)..MaxDraw) \cup ((Len(deck) - MaxShuffleLen)..(Len(deck) + 1))

DeckInit ==
    /\ deck \in DeckInputs
    /\ drawn = <<>>
    /\ last = [NoDeckOp EXCEPT !.op = "init", !.initial = deck]
    /\ EvalIdle
    /\ CardIdle
    /\ GameIdle
    /\ StraightIdle

\* deck.shuffle() on a deck of at most MaxShuffleLen cards, with any draws
\* of randbelow
Shuffle ==
    /\ last.count < MaxDeckOps
    /\ Len(deck) <= MaxShuffleLen
    /\ \E js \in RandbelowDraws(Len(deck)) : deck' = Shuffled(deck, js)
    /\ last' = [op |-> "shuffle", n |-> 0, raised |-> "none", value |-> <<>>,
                before |-> deck, count |-> last.count + 1, initial |-> last.initial]
    /\ UNCHANGED drawn
    /\ UNCHANGED <<evalVars, cardVars, gameVars, straightVars>>

Draw(n) ==
    /\ last.count < MaxDeckOps
    /\ LET r == Deck_draw(deck, n) IN
          /\ deck' = r.cards
          /\ drawn' = drawn \o r.value
          /\ last' = [op |-> "draw", n |-> n, raised |-> r.raised, value |-> r.value,
                      before |-> deck, count |-> last.count + 1, initial |-> last.initial]
    /\ UNCHANGED <<evalVars, cardVars, gameVars, straightVars>>

DeckNext ==
    \/ Shuffle
    \/ \E n \in DrawInputs : Draw(n)

SpecDeck == DeckInit /\ [][DeckNext]_vars

\* C14: draw(n) raises when n < 1 or n exceeds the number of cards
\* remaining, an empty deck included, and a draw that raised left the deck
\* as it was: same cards, same order, same length
C14_FailedDraw ==
    last.op = "draw" =>
       /\ (last.n < 1 \/ last.n > Len(last.before)) => last.raised = "Cannot draw"
       /\ last.raised # "none" =>
             /\ deck = last.before
             /\ Len(deck) = Len(last.before)
             /\ last.value = <<>>

\* draw(1) on a deck emptied by an earlier draw raised
C14_Witness ==
    /\ last.op = "draw"
    /\ last.n = 1
    /\ last.before = <<>>
    /\ Len(drawn) = 52
    /\ last.raised = "Cannot draw"
    /\ deck = <<>>

\* draw(n) with n above the number of cards remaining raised on a deck that
\* still held cards
C14_WitnessTooMany ==
    /\ last.op = "draw"
    /\ last.n = Len(last.before) + 1
    /\ Len(last.before) > 0
    /\ last.raised = "Cannot draw"

AllCards == {Card(r, s) : r \in 2..14, s \in FourSuits}

SeqRange(seq) == {seq[i] : i \in 1..Len(seq)}

NoRepeats(seq) == \A i, j \in 1..Len(seq) : seq[i] = seq[j] => i = j

\* C15: after any shuffles and draws, a draw(n) that succeeded returned the
\* first n cards of the deck in their order and shortened the deck by n; on
\* a fresh deck the cards drawn so far and the cards remaining are exactly
\* the 52 distinct cards and no card was drawn twice; on any deck they are
\* the cards the deck was constructed with
C15_DeckConservation ==
    /\ (last.op = "draw" /\ last.raised = "none") =>
          /\ Len(last.value) = last.n
          /\ last.value = SubSeq(last.before, 1, last.n)
          /\ Len(deck) = Len(last.before) - last.n
          /\ deck = SubSeq(last.before, last.n + 1, Len(last.before))
    /\ (last.op # "none" /\ last.initial = FreshDeck) =>
          /\ Len(drawn) + Len(deck) = 52
          /\ SeqRange(drawn) \cup SeqRange(deck) = AllCards
          /\ Cardinality(AllCards) = 52
          /\ NoRepeats(drawn \o deck)
          /\ NoRepeats(drawn)
    /\ last.op # "none" =>
          /\ Len(drawn) + Len(deck) = Len(last.initial)
          /\ SeqRange(drawn) \cup SeqRange(deck) = SeqRange(last.initial)

\* a draw succeeded on a fresh deck that had been drawn from before, after
\* a shuffle that had put the last card of the deck at the front
C15_Witness ==
    /\ last.op = "draw"
    /\ last.raised = "none"
    /\ last.n = 2
    /\ Len(drawn) = 51
    /\ Len(deck) = 1
    /\ last.initial = FreshDeck
    /\ last.value[1] = FreshDeck[52]
    /\ last.before # SubSeq(FreshDeck, 50, 52)

(***************************************************************************)
(* engine/rules.py: streets and blinds.                                    *)
(***************************************************************************)

PREFLOP == "preflop"
FLOP == "flop"
TURN == "turn"
RIVER == "river"
SHOWDOWN == "showdown"

\* BLIND_STRUCTURE
small_blind == 1
big_blind == 2

street_order == <<PREFLOP, FLOP, TURN, RIVER, SHOWDOWN>>

\* street_order.index(current); 0 stands for the ValueError of a value that
\* is not in the list
StreetIndex(current) ==
    IF \E i \in 1..Len(street_order) : street_order[i] = current
    THEN CHOOSE i \in 1..Len(street_order) : street_order[i] = current
    ELSE 0

\* mutant: the street after showdown wraps around to preflop
next_street_wraps(current) ==
    IF StreetIndex(current) = 0 THEN Raise("Invalid street")
    ELSE Return(street_order[(StreetIndex(current) % Len(street_order)) + 1])

\* next_street(current): indices here are 1-based, idx + 1 of the code is
\* StreetIndex(current) + 1
next_street(current) ==
    IF StreetIndex(current) = 0 THEN Raise("Invalid street")
    ELSE Return(street_order[Min2(StreetIndex(current) + 1, Len(street_order))])

\* mutant: one more card is dealt at showdown
get_cards_to_deal_at_showdown(s) ==
    CASE s = PREFLOP -> 0
      [] s = FLOP -> 3
      [] s = TURN -> 1
      [] s = RIVER -> 1
      [] s = SHOWDOWN -> 1
      [] OTHER -> 0

\* get_cards_to_deal(street): cards_by_street.get(street, 0)
get_cards_to_deal(s) ==
    CASE s = PREFLOP -> 0
      [] s = FLOP -> 3
      [] s = TURN -> 1
      [] s = RIVER -> 1
      [] s = SHOWDOWN -> 0
      [] OTHER -> 0

(***************************************************************************)
(* engine/game_state.py: PlayerState, GameState and post_blinds.  Players  *)
(* are numbered from 0 as in the code; player i is players[i + 1].         *)
(***************************************************************************)

\* the largest number of players at the table
MaxPlayers == 3

\* the largest starting stack
MaxStack == 3

\* the number of post_blinds calls made on one GameState
MaxBlindCalls == 2

\* the number of street advances made on one GameState
MaxSteps == 5

\* PlayerState(stack, in_hand, bet, position) with its __post_init__: the
\* stack is checked first, then the bet; position None is the string "None"
PlayerState(stack, in_hand, bet, position) ==
    IF stack < 0 THEN Raise("Stack cannot be negative")
    ELSE IF bet < 0 THEN Raise("Bet cannot be negative")
    ELSE Return([stack |-> stack, in_hand |-> in_hand, bet |-> bet, position |-> position])

\* the stacks and bets handed to PlayerState, a negative one included
StackInputs == (0 - 1)..MaxStack

BetInputs == {0 - 1, 0}

\* the players that can be constructed from these inputs, in_hand and
\* position at their defaults: a construction that raised yields no player
PlayersConstructed ==
    {PlayerState(stack, TRUE, bet, "None").value :
        <<stack, bet>> \in {sb \in StackInputs \X BetInputs :
                               PlayerState(sb[1], TRUE, sb[2], "None").raised = "none"}}

\* mutant: the heads-up case is treated like three or more players
sb_idx_no_heads_up(num_players, b) == (b + 1) % num_players

\* the seat of the small blind
sb_idx(num_players, b) ==
    IF num_players = 2 THEN b ELSE (b + 1) % num_players

\* the seat of the big blind
bb_idx(num_players, b) ==
    IF num_players = 2 THEN (b + 1) % num_players ELSE (b + 2) % num_players

\* mutant: the whole blind is posted whatever the stack
blind_amount_full(stack, blind) == blind

\* min(self.players[idx].stack, BLIND_STRUCTURE[...])
blind_amount(stack, blind) == Min2(stack, blind)

\* mutant: the amount is added to the bet and not taken from the stack
Posted_stack_kept(ps, idx, amount) ==
    [ps EXCEPT ![idx + 1].bet = @ + amount]

\* players[idx] posts amount: stack -= amount, bet += amount
Posted(ps, idx, amount) ==
    [ps EXCEPT ![idx + 1].stack = @ - amount, ![idx + 1].bet = @ + amount]

\* mutant: the blinds are posted before the number of players is checked,
\* to_act is set after it
post_blinds_checks_late(ps, b, p, cb, ta) ==
    LET num_players == Len(ps)
        sb == sb_idx(num_players, b)
        bb == bb_idx(num_players, b)
        sb_amount == blind_amount(ps[sb + 1].stack, small_blind)
        ps1 == Posted(ps, sb, sb_amount)
        bb_amount == blind_amount(ps1[bb + 1].stack, big_blind)
        ps2 == Posted(ps1, bb, bb_amount)
    IN [raised |-> IF num_players < 2 THEN "Need at least 2 players" ELSE "none",
        players |-> ps2, pot |-> p + sb_amount + bb_amount,
        current_bet |-> bb_amount,
        to_act |-> IF num_players < 2 THEN ta ELSE (bb + 1) % num_players,
        sb_idx |-> sb, bb_idx |-> bb, sb_amount |-> sb_amount, bb_amount |-> bb_amount]

\* GameState.post_blinds on players ps, button b, pot p: what is raised, the
\* fields afterwards and the locals of the call
post_blinds(ps, b, p, cb, ta) ==
    LET num_players == Len(ps) IN
    IF num_players < 2
    THEN [raised |-> "Need at least 2 players", players |-> ps, pot |-> p,
          current_bet |-> cb, to_act |-> ta,
          sb_idx |-> 0, bb_idx |-> 0, sb_amount |-> 0, bb_amount |-> 0]
    ELSE
        LET sb == sb_idx(num_players, b)
            bb == bb_idx(num_players, b)
            sb_amount == blind_amount(ps[sb + 1].stack, small_blind)
            ps1 == Posted(ps, sb, sb_amount)
            bb_amount == blind_amount(ps1[bb + 1].stack, big_blind)
            ps2 == Posted(ps1, bb, bb_amount)
        IN [raised |-> "none", players |-> ps2, pot |-> p + sb_amount + bb_amount,
            current_bet |-> bb_amount, to_act |-> (bb + 1) % num_players,
            sb_idx |-> sb, bb_idx |-> bb, sb_amount |-> sb_amount, bb_amount |-> bb_amount]

\* the community cards in the order they are put on the board
BoardCard(i) == Card(14 - ((i - 1) % 13), S)

\* GameState(players=[PlayerState(stack), ...], button=b): the other fields
\* take their defaults; __post_init__ needs a player and a button in range
GameInit ==
    /\ \E n \in 1..MaxPlayers :
          /\ players \in [1..n -> PlayersConstructed]
          /\ button \in 0..(n - 1)
    /\ street = PREFLOP
    /\ board = <<>>
    /\ pot = 0
    /\ to_act = "None"
    /\ current_bet = 0
    /\ blinds = NoBlinds
    /\ steps = 0
    /\ EvalIdle
    /\ CardIdle
    /\ DeckIdle
    /\ StraightIdle

\* state.post_blinds()
PostBlinds ==
    /\ blinds.calls < MaxBlindCalls
    /\ LET r == post_blinds(players, button, pot, current_bet, to_act) IN
          /\ players' = r.players
          /\ pot' = r.pot
          /\ current_bet' = r.current_bet
          /\ to_act' = r.to_act
          /\ blinds' = [raised |-> r.raised, sb_idx |-> r.sb_idx, bb_idx |-> r.bb_idx,
                        sb_amount |-> r.sb_amount, bb_amount |-> r.bb_amount,
                        before |-> players, calls |-> blinds.calls + 1]
    /\ UNCHANGED <<button, street, board, steps>>
    /\ UNCHANGED <<evalVars, cardVars, deckVars, straightVars>>

\* the hand moves on: state.street = next_street(state.street) and the
\* cards of the street entered are put on the board
AdvanceStreet ==
    /\ steps < MaxSteps
    /\ LET r == next_street(street) IN
          /\ r.raised = "none"
          /\ street' = r.value
          /\ board' = board \o [i \in 1..get_cards_to_deal(r.value) |-> BoardCard(Len(board) + i)]
    /\ steps' = steps + 1
    /\ UNCHANGED <<players, button, pot, to_act, current_bet, blinds>>
    /\ UNCHANGED <<evalVars, cardVars, deckVars, straightVars>>

GameNext == PostBlinds \/ AdvanceStreet

SpecGame == GameInit /\ [][GameNext]_vars

(***************************************************************************)
(* Properties of post_blinds and of the street rules.                      *)
(***************************************************************************)

BlindsPosted == blinds.raised = "none"

\* the largest bet field among the players
MaxBet(ps) == CHOOSE m \in {ps[i].bet : i \in 1..Len(ps)} : \A i \in 1..Len(ps) : ps[i].bet <= m

RECURSIVE SumBets(_, _)
SumBets(ps, i) == IF i > Len(ps) THEN 0 ELSE ps[i].bet + SumBets(ps, i + 1)

\* C16: post_blinds with n >= 2 players and button b: heads-up the button
\* posts the small blind and player (b+1) mod 2 the big blind; with 3 or
\* more players (b+1) mod n posts the small blind and (b+2) mod n the big
\* blind; to_act becomes (bb+1) mod n, which heads-up is the button; only
\* the two blind seats have posted
C16_BlindSeats ==
    BlindsPosted =>
       LET n == Len(players)
           b == button
           sb == blinds.sb_idx
           bb == blinds.bb_idx
       IN /\ n >= 2
          /\ n = 2 => (sb = b /\ bb = (b + 1) % 2 /\ to_act = b)
          /\ n >= 3 => (sb = (b + 1) % n /\ bb = (b + 2) % n)
          /\ sb # bb
          /\ to_act = (bb + 1) % n
          /\ players[sb + 1].bet = blinds.before[sb + 1].bet + blinds.sb_amount
          /\ players[bb + 1].bet = blinds.before[bb + 1].bet + blinds.bb_amount
          /\ \A i \in 0..(n - 1) : (i # sb /\ i # bb) => players[i + 1] = blinds.before[i + 1]

\* three players with the button on the last seat: the blinds wrap around to
\* seats 0 and 1 and the button acts first
C16_Witness ==
    /\ BlindsPosted
    /\ Len(players) = 3
    /\ button = 2
    /\ blinds.sb_idx = 0
    /\ blinds.bb_idx = 1
    /\ to_act = 2
    /\ players[1].bet = 1
    /\ players[2].bet = 2

\* heads-up with the button on seat 1: the button posted the small blind
C16_WitnessHeadsUp ==
    /\ BlindsPosted
    /\ Len(players) = 2
    /\ button = 1
    /\ blinds.sb_idx = 1
    /\ blinds.bb_idx = 0
    /\ to_act = 1
    /\ players[2].bet = 1

\* C17: after post_blinds on a state whose players all had bet 0,
\* current_bet is the highest bet of the round: the maximum of the players'
\* bet fields, whatever the stacks
C17_CurrentBetIsHighest ==
    (BlindsPosted /\ \A i \in 1..Len(blinds.before) : blinds.before[i].bet = 0) =>
       current_bet = MaxBet(players)

\* C18: the small blind posts min(stack, 1) and the big blind min(stack, 2),
\* each moved from the stack to the bet and the pot, and after any number of
\* post_blinds calls no stack and no bet is negative
C18_ShortStackBlinds ==
    /\ \A i \in 1..Len(players) : players[i].stack >= 0 /\ players[i].bet >= 0
    /\ pot = SumBets(players, 1)
    /\ BlindsPosted =>
          LET sb == blinds.sb_idx + 1
              bb == blinds.bb_idx + 1
              before == blinds.before
          IN /\ blinds.sb_amount = (IF before[sb].stack < 1 THEN before[sb].stack ELSE 1)
             /\ blinds.bb_amount = (IF before[bb].stack < 2 THEN before[bb].stack ELSE 2)
             /\ players[sb].stack = before[sb].stack - blinds.sb_amount
             /\ players[bb].stack = before[bb].stack - blinds.bb_amount
             /\ players[sb].bet = before[sb].bet + blinds.sb_amount
             /\ players[bb].bet = before[bb].bet + blinds.bb_amount
             /\ \A i \in 1..Len(players) : players[i].stack + players[i].bet = before[i].stack + before[i].bet

\* on the second call the big blind had 1 chip left and posted it, and the
\* small blind had nothing left to post
C18_Witness ==
    /\ BlindsPosted
    /\ blinds.calls = 2
    /\ blinds.before[blinds.bb_idx + 1].stack = 1
    /\ blinds.bb_amount = 1
    /\ blinds.before[blinds.sb_idx + 1].stack = 0
    /\ blinds.sb_amount = 0
    /\ players[blinds.bb_idx + 1].stack = 0

Streets == <<"preflop", "flop", "turn", "river", "showdown">>

RECURSIVE StreetAfter(_, _)
StreetAfter(s, k) == IF k = 0 THEN s ELSE StreetAfter(next_street(s).value, k - 1)

\* C19: next_street moves one street forward along preflop, flop, turn,
\* river, showdown, never backward and never past a street; showdown is
\* absorbing; from any street at most 4 applications reach showdown, and
\* further applications stay there
C19_StreetProgression ==
    /\ \A i \in 1..5 : next_street(Streets[i]) = Return(Streets[IF i < 5 THEN i + 1 ELSE 5])
    /\ next_street("showdown") = Return("showdown")
    /\ \A i \in 1..5 : \A k \in 0..(4 + MaxSteps) :
          StreetAfter(Streets[i], k) = Streets[IF i + k < 5 THEN i + k ELSE 5]
    /\ street = Streets[IF steps + 1 < 5 THEN steps + 1 ELSE 5]
    /\ steps >= 4 => street = "showdown"

\* the street was advanced once more at showdown and stayed there
C19_Witness ==
    /\ steps > 4
    /\ street = "showdown"

\* C20: from preflop with an empty board, dealing get_cards_to_deal(s) cards
\* on entering each street s, the board holds 0, 3, 4, 5 cards at preflop,
\* flop, turn, river, stays at 5 at showdown however often the street is
\* advanced again, and never exceeds 5 cards
C20_BoardSizes ==
    /\ Len(board) <= 5
    /\ street = "preflop" => Len(board) = 0
    /\ street = "flop" => Len(board) = 3
    /\ street = "turn" => Len(board) = 4
    /\ street = "river" => Len(board) = 5
    /\ street = "showdown" => Len(board) = 5
    /\ get_cards_to_deal("preflop") + get_cards_to_deal("flop")
          + get_cards_to_deal("turn") + get_cards_to_deal("river") = 5
    /\ NoRepeats(board)

\* showdown was entered, the street was advanced again, and the board holds
\* its 5 cards
C20_Witness ==
    /\ steps = MaxSteps
    /\ steps > 4
    /\ street = "showdown"
    /\ Len(board) = 5

\* the turn was entered with 4 cards on the board
C20_WitnessTurn ==
    /\ steps = 2
    /\ street = "turn"
    /\ Len(board) = 4

(***************************************************************************)
(* engine/cards.py: Action and PlayerAction.                               *)
(***************************************************************************)

\* the amounts passed to PlayerAction(...) range over -MaxAmount..MaxAmount
MaxAmount == 3

\* the members of the enum Action
FOLD == "fold"
CHECK == "check"
CALL == "call"
BET == "bet"
RAISE == "raise"

Actions == <<FOLD, CHECK, CALL, BET, RAISE>>

AmountInputs == (0 - MaxAmount)..MaxAmount

\* PlayerAction(action, amount): the generated __init__ followed by
\* __post_init__ with its three checks in their order
PlayerAction_new(action, amount) ==
    IF amount < 0 THEN Raise("Amount cannot be negative")
    ELSE IF action \in {FOLD, CHECK} /\ amount # 0 THEN Raise("must have amount=0")
    ELSE IF action \in {BET, RAISE} /\ amount <= 0 THEN Raise("requires positive amount")
    ELSE Return([action |-> action, amount |-> amount])

ActionInit ==
    /\ made = <<>>
    /\ acts = <<>>
    /\ EvalIdle
    /\ DeckIdle
    /\ GameIdle
    /\ StraightIdle

\* one call PlayerAction(action, amount), as the tests of TestPlayerAction
\* make; the call before it is kept beside it
ConstructAction(action, amount) ==
    /\ acts' = (IF acts = <<>> THEN <<>> ELSE <<acts[Len(acts)]>>)
                   \o <<[action |-> action, amount |-> amount,
                         outcome |-> PlayerAction_new(action, amount)]>>
    /\ UNCHANGED made
    /\ UNCHANGED <<evalVars, deckVars, gameVars, straightVars>>

ActionNext ==
    \E k \in 1..Len(Actions) : \E amount \in AmountInputs : ConstructAction(Actions[k], amount)

SpecAction == ActionInit /\ [][ActionNext]_vars

\* C21: a PlayerAction is constructed exactly when its amount fits its
\* action: zero for fold, check and call, strictly positive for bet and
\* raise; any other amount makes construction fail
C21_AmountFitsAction ==
    \A i \in 1..Len(acts) :
       LET e == acts[i] IN
       e.outcome.raised = "none" <=>
          \/ e.action \in {"fold", "check", "call"} /\ e.amount = 0
          \/ e.action \in {"bet", "raise"} /\ e.amount > 0

\* C22: post_blinds on a state with fewer than 2 players raises and leaves
\* the whole state as it was: no stack, bet, pot, current_bet or to_act is
\* modified
C22_TooFewPlayers ==
    /\ (blinds.calls > 0 /\ Len(blinds.before) < 2) =>
          /\ blinds.raised = "Need at least 2 players"
          /\ players = blinds.before
          /\ \A i \in 1..Len(players) : players[i].bet = 0
          /\ pot = 0
          /\ current_bet = 0
          /\ to_act = "None"
    /\ (blinds.calls > 0 /\ blinds.raised # "none") => Len(blinds.before) < 2

\* post_blinds was called twice on a table of one player with chips, and
\* raised
C22_Witness ==
    /\ blinds.calls = 2
    /\ Len(players) = 1
    /\ players[1].stack = 3
    /\ blinds.raised = "Need at least 2 players"
    /\ pot = 0

(***************************************************************************)
(* The two straight detectors of engine/evaluator.py applied to lists of   *)
(* ranks: _check_straight as _evaluate_5 calls it, _highest_straight on    *)
(* the bitmask built as _evaluate_best_5_fast builds it.                   *)
(***************************************************************************)

\* lists with repeated ranks are built up to this length
RepeatLen == 5

\* any set of ranks, highest first, as a list
StraightInit ==
    /\ \E R \in SUBSET RANKS : sranks = SortedDesc(SortedAsc(R))
    /\ sfound = NotDetected
    /\ EvalIdle
    /\ CardIdle
    /\ DeckIdle
    /\ GameIdle

\* one rank of the list occurs once more
Duplicate(i) ==
    /\ ~sfound.called
    /\ Len(sranks) < RepeatLen
    /\ sranks' = SubSeq(sranks, 1, i) \o <<sranks[i]>> \o SubSeq(sranks, i + 1, Len(sranks))
    /\ UNCHANGED sfound
    /\ UNCHANGED <<evalVars, cardVars, deckVars, gameVars>>

\* both detectors are applied to the list
Detect ==
    /\ ~sfound.called
    /\ sfound' = [called |-> TRUE,
                  check |-> _check_straight(sranks),
                  highest |-> _highest_straight(RanksMask(sranks))]
    /\ UNCHANGED sranks
    /\ UNCHANGED <<evalVars, cardVars, deckVars, gameVars>>

StraightNext == (\E i \in 1..Len(sranks) : Duplicate(i)) \/ Detect

SpecStraight == StraightInit /\ [][StraightNext]_vars

\* rank r is present in the list, the Ace counting as rank 1 too
Present(r) == \E i \in 1..Len(sranks) : sranks[i] = r \/ (r = 1 /\ sranks[i] = 14)

\* the high ranks of the runs of five present ranks
RunHighs == {h \in 5..14 : \A r \in (h - 4)..h : Present(r)}

\* C23: _highest_straight returns the largest h in 5..14 with all of
\* h-4..h present, the Ace counting as rank 1 too, and 0 when there is no
\* such h; with A,2,3,4,5 present the result is 5 unless a higher run is
\* present as well
C23_HighestStraight ==
    sfound.called =>
       LET highs == RunHighs IN
       /\ highs = {} => sfound.highest = 0
       /\ highs # {} => (sfound.highest \in highs /\ \A h \in highs : h <= sfound.highest)
       /\ ({14, 2, 3, 4, 5} \subseteq {sranks[i] : i \in 1..Len(sranks)} /\ highs = {5})
             => sfound.highest = 5

\* 7 ranks holding A,2,3,4,5 and a 6: the 6-high run wins over the wheel
C23_Witness ==
    /\ sfound.called
    /\ sranks = <<14, 9, 6, 5, 4, 3, 2>>
    /\ sfound.highest = 6

\* 6 ranks holding the wheel and no higher run
C23_WitnessWheel ==
    /\ sfound.called
    /\ sranks = <<14, 13, 5, 4, 3, 2>>
    /\ sfound.highest = 5

\* C24: on every list of 5 ranks, with or without repeated ranks,
\* _check_straight reports a straight with high h exactly when
\* _highest_straight of the bitmask returns h, and no straight exactly when
\* it returns 0
C24_DetectorsAgree ==
    (sfound.called /\ Len(sranks) = 5) =>
       /\ sfound.check[1] <=> sfound.highest # 0
       /\ sfound.check[2] = sfound.highest
       /\ sfound.check[1] => sfound.check[2] \in 5..14

\* the detectors agreed on the wheel
C24_Witness ==
    /\ sfound.called
    /\ sranks = <<14, 5, 4, 3, 2>>
    /\ sfound.check = <<TRUE, 5>>
    /\ sfound.highest = 5

\* the detectors agreed on a list with a repeated rank whose ranks span 4
C24_WitnessRepeated ==
    /\ sfound.called
    /\ sranks = <<6, 4, 3, 2, 2>>
    /\ sfound.check = <<FALSE, 0>>
    /\ sfound.highest = 0

(***************************************************************************)
(* The rules of the 5-card classifier taken one by one.                    *)
(***************************************************************************)

\* the eight conditional rules of _evaluate_5 in its priority order, each
\* with its condition and the score it returns; the score is computed only
\* where the condition holds
Rules(hand) ==
    LET ranks == [i \in 1..Len(hand) |-> hand[i].rank]
        suits == [i \in 1..Len(hand) |-> hand[i].suit]
        counts_sorted == SortedCounts(CounterItems(ranks))
        n == Len(counts_sorted)
        is_flush == Cardinality({suits[i] : i \in 1..Len(suits)}) = 1
        straight == _check_straight(ranks)
        is_straight == straight[1]
        straight_high == straight[2]
        remaining == [k \in 1..(n - 1) |-> counts_sorted[k + 1][1]]
        Rule(cond, score) == [cond |-> cond, score |-> score]
        c4 == counts_sorted[1][2] = 4
        c32 == counts_sorted[1][2] = 3 /\ counts_sorted[2][2] = 2
        c3 == counts_sorted[1][2] = 3
        c22 == counts_sorted[1][2] = 2 /\ counts_sorted[2][2] = 2
        c2 == counts_sorted[1][2] = 2
    IN  << Rule(is_flush /\ is_straight,
                IF straight_high = 14 THEN <<ROYAL_FLUSH, <<14>>>>
                ELSE <<STRAIGHT_FLUSH, <<straight_high>>>>),
           Rule(c4, IF c4 THEN <<FOUR_OF_KIND, <<counts_sorted[1][1], counts_sorted[2][1]>>>> ELSE <<>>),
           Rule(c32, IF c32 THEN <<FULL_HOUSE, <<counts_sorted[1][1], counts_sorted[2][1]>>>> ELSE <<>>),
           Rule(is_flush, <<FLUSH, SortedDesc(ranks)>>),
           Rule(is_straight, <<STRAIGHT, <<straight_high>>>>),
           Rule(c3, <<THREE_OF_KIND, <<counts_sorted[1][1]>> \o SortedDesc(remaining)>>),
           Rule(c22, IF c22 THEN <<TWO_PAIR, <<Max2(counts_sorted[1][1], counts_sorted[2][1]),
                                               Min2(counts_sorted[1][1], counts_sorted[2][1]),
                                               counts_sorted[3][1]>>>> ELSE <<>>),
           Rule(c2, <<ONE_PAIR, <<counts_sorted[1][1]>> \o SortedDesc(remaining)>>) >>

\* the rule numbers whose condition holds
Satisfied(rules) == {k \in 1..Len(rules) : rules[k].cond}

\* the score when the rules are tested in the given order and the first one
\* whose condition holds returns; high card when none holds
RECURSIVE FirstMatch(_, _, _, _)
FirstMatch(rules, order, i, hand) ==
    IF i > Len(order)
    THEN <<HIGH_CARD, SortedDesc([k \in 1..Len(hand) |-> hand[k].rank])>>
    ELSE IF rules[order[i]].cond THEN rules[order[i]].score
    ELSE FirstMatch(rules, order, i + 1, hand)

PriorityOrder == <<1, 2, 3, 4, 5, 6, 7, 8>>

\* other orders: the reverse, and each exchange of two neighbouring rules
OtherOrders ==
    {[k \in 1..8 |-> 9 - k]} \cup
    {[k \in 1..8 |-> IF k = j THEN j + 1 ELSE IF k = j + 1 THEN j ELSE k] : j \in 1..7}

FiveReturned == Returned /\ Len(cards) = 5 /\ result.raised = "none"

\* C25 as stated: on a hand of 5 distinct cards at most one rule's condition
\* holds, and testing the rules in any other order returns the same score
C25_RulesExclusive ==
    FiveReturned =>
       LET rules == Rules(cards) IN
       /\ Cardinality(Satisfied(rules)) <= 1
       /\ \A order \in OtherOrders : FirstMatch(rules, order, 1, cards) = result.value

\* the sets of rules that can hold together
Overlaps == {{}, {1, 4, 5}, {2}, {3, 6}, {4}, {5}, {6}, {7, 8}, {8}}

Least(ks) == CHOOSE k \in ks : \A j \in ks : k <= j

\* C25: the rules of _evaluate_5 overlap, so their order matters: the score
\* is that of the first rule in the priority order whose condition holds;
\* a straight flush also meets the flush and the straight rule, a full
\* house the three-of-a-kind rule, two pair the one-pair rule, and no other
\* rules hold together; another order returns the same score exactly when
\* its first rule that holds is the one the priority order picks
C25_PriorityDecides ==
    FiveReturned =>
       LET rules == Rules(cards)
           sat == Satisfied(rules)
       IN /\ FirstMatch(rules, PriorityOrder, 1, cards) = result.value
          /\ sat \in Overlaps
          /\ \A order \in OtherOrders :
                LET first == {i \in 1..8 : rules[order[i]].cond /\ \A j \in 1..(i - 1) : ~rules[order[j]].cond}
                IN  FirstMatch(rules, order, 1, cards) = result.value
                       <=> (sat = {} \/ \E i \in first : order[i] = Least(sat))

\* a straight flush was scored: it meets the flush rule and the straight
\* rule as well, and with the rules reversed it would be scored a straight
C25_Witness ==
    /\ FiveReturned
    /\ result.value[1] = STRAIGHT_FLUSH
    /\ Satisfied(Rules(cards)) = {1, 4, 5}
    /\ FirstMatch(Rules(cards), [k \in 1..8 |-> 9 - k], 1, cards)[1] = STRAIGHT

(***************************************************************************)
(* Properties of the evaluation of 6 and 7 cards.                          *)
(***************************************************************************)

FastReturned == Returned /\ Len(cards) \in 6..7 /\ result.raised = "none"

\* a card of rank r, the Ace standing for rank 1 too
HasRank(c, r) == c.rank = r \/ (r = 1 /\ c.rank = 14)

\* five cards of one suit form a run
HasSuitedRun(hand) ==
    \E s \in FourSuits : \E h \in 5..14 : \A r \in (h - 4)..h :
        \E i \in 1..Len(hand) : hand[i].suit = s /\ HasRank(hand[i], r)

\* five cards of any suits form a run
HasRun(hand) ==
    \E h \in 5..14 : \A r \in (h - 4)..h : \E i \in 1..Len(hand) : HasRank(hand[i], r)

\* the suits with at least five cards
FlushSuits(hand) == {s \in FourSuits : Cardinality({i \in 1..Len(hand) : hand[i].suit = s}) >= 5}

\* C26: on 6 or 7 distinct cards Straight Flush or Royal Flush is returned
\* only when five cards of one suit form the run; a hand holding a flush
\* and a straight that need a card of another suit is scored Flush, or
\* higher when quads or a full house are present, never Straight Flush
C26_StraightFlushSameSuit ==
    FastReturned =>
       LET category == result.value[1] IN
       /\ category \in {STRAIGHT_FLUSH, ROYAL_FLUSH} => HasSuitedRun(cards)
       /\ (FlushSuits(cards) # {} /\ HasRun(cards) /\ ~HasSuitedRun(cards)) =>
             /\ category \in {FLUSH, FULL_HOUSE, FOUR_OF_KIND}
             /\ (\A r \in 2..14 : RankCount(cards, r) < 3) => category = FLUSH

\* 7 cards holding a flush and a run that needs a card of another suit were
\* scored Flush
C26_Witness ==
    /\ FastReturned
    /\ Len(cards) = 7
    /\ FlushSuits(cards) # {}
    /\ HasRun(cards)
    /\ ~HasSuitedRun(cards)
    /\ result.value[1] = FLUSH

Highest(ranks) == CHOOSE r \in ranks : \A q \in ranks : q <= r

\* the ranks held at least k times
RanksAtLeast(hand, k) == {r \in 2..14 : RankCount(hand, r) >= k}

\* C27: on 6 or 7 distinct cards with no straight flush and no four of a
\* kind, Full House is returned exactly when some rank is held at least 3
\* times and a different rank at least twice; the kickers are the highest
\* rank held 3 times, then the second rank held 3 times if there is one,
\* otherwise the highest other rank held twice; one triple with no other
\* paired rank is not a Full House
C27_FullHouse ==
    (FastReturned /\ ~HasSuitedRun(cards) /\ RanksAtLeast(cards, 4) = {}) =>
       LET trips == RanksAtLeast(cards, 3)
           pairs == RanksAtLeast(cards, 2)
           category == result.value[1]
           kickers == result.value[2]
       IN /\ category = FULL_HOUSE <=> \E t \in trips : \E q \in pairs : q # t
          /\ category = FULL_HOUSE =>
                /\ Len(kickers) = 2
                /\ kickers[1] = Highest(trips)
                /\ kickers[2] = IF Cardinality(trips) >= 2
                                THEN Highest(trips \ {kickers[1]})
                                ELSE Highest(pairs \ {kickers[1]})
          /\ (Cardinality(trips) = 1 /\ pairs = trips) => category # FULL_HOUSE

\* 7 cards holding two triples were scored Full House, the higher triple
\* first, the lower triple as the pair
C27_Witness ==
    /\ FastReturned
    /\ Len(cards) = 7
    /\ Cardinality(RanksAtLeast(cards, 3)) = 2
    /\ RanksAtLeast(cards, 4) = {}
    /\ result.value = <<FULL_HOUSE, <<14, 5>>>>

\* 7 cards holding one triple and two pairs were scored Full House with the
\* higher pair
C27_WitnessTwoPairs ==
    /\ FastReturned
    /\ Len(cards) = 7
    /\ Cardinality(RanksAtLeast(cards, 3)) = 1
    /\ Cardinality(RanksAtLeast(cards, 2)) = 3
    /\ result.value[1] = FULL_HOUSE

\* 7 cards holding one triple and no other paired rank were not scored Full
\* House
C27_WitnessTripsOnly ==
    /\ FastReturned
    /\ Len(cards) = 7
    /\ Cardinality(RanksAtLeast(cards, 2)) = 1
    /\ Cardinality(RanksAtLeast(cards, 3)) = 1
    /\ result.value[1] = THREE_OF_KIND

\* the ranks of the cards of suit s
RanksOfSuit(hand, s) == {hand[i].rank : i \in {k \in 1..Len(hand) : hand[k].suit = s}}

\* C28: on 6 or 7 distinct cards scored Flush the kickers are the five
\* highest ranks of the suit that has at least 5 cards, highest first; with
\* 6 or 7 cards of the suit the lowest ranks are dropped, and cards of other
\* suits do not appear among the kickers
C28_FlushKickers ==
    (FastReturned /\ result.value[1] = FLUSH) =>
       LET suits == FlushSuits(cards)
           kickers == result.value[2]
       IN /\ Cardinality(suits) = 1
          /\ \A s \in suits :
                LET of_suit == Descending(RanksOfSuit(cards, s)) IN
                /\ kickers = SubSeq(of_suit, 1, 5)
                /\ \A k \in 1..5 : kickers[k] \in RanksOfSuit(cards, s)
                /\ \A k \in 6..Len(of_suit) : of_suit[k] < kickers[5]

\* 7 cards with six cards of the flush suit and a higher card of another
\* suit: the lowest card of the suit was dropped and the other suit's card
\* is no kicker
C28_Witness ==
    /\ FastReturned
    /\ Len(cards) = 7
    /\ result.value[1] = FLUSH
    /\ result.value[2] = <<13, 12, 10, 6, 3>>
    /\ \E i \in 1..7 : cards[i] = Card(5, H)
    /\ \E i \in 1..7 : cards[i] = Card(2, S)

(***************************************************************************)
(* A caller that evaluates hands dealt from cards rich in pairs.           *)
(***************************************************************************)

\* the number of cards of PairPool that hands are dealt from
PairPoolSize == 12

PairPool ==
    << Card(9, D),  Card(14, S), Card(3, S),  Card(13, H), Card(14, D),
       Card(5, C),  Card(9, S),  Card(2, D),  Card(13, S), Card(8, H),
       Card(5, H),  Card(7, C),  Card(8, D),  Card(3, H) >>

PairPoolIndices == 1..Min2(PairPoolSize, Len(PairPool))

PairsInit ==
    /\ cards = <<>>
    /\ result = NoResult
    /\ classifier = "none"
    /\ pc = "deal"
    /\ called = 0
    /\ firsts = <<>>
    /\ hands = <<>>
    /\ seen = {}
    /\ bitmasks = STRAIGHT_BITMASKS
    /\ CardIdle
    /\ DeckIdle
    /\ GameIdle
    /\ StraightIdle

\* cards.append(PairPool[i]): the cards are taken in the order of the pool
DealPair(i) ==
    /\ pc = "deal"
    /\ Len(cards) < MaxCards
    /\ \A k \in 1..Len(cards) : \E j \in 1..(i - 1) : PairPool[j] = cards[k]
    /\ cards' = Append(cards, PairPool[i])
    /\ UNCHANGED <<result, classifier, pc, called, firsts, hands, seen, bitmasks>>
    /\ UNCHANGED <<cardVars, deckVars, gameVars, straightVars>>

PairsNext == (\E i \in PairPoolIndices : DealPair(i)) \/ Evaluate

SpecPairs == PairsInit /\ [][PairsNext]_vars

\* the ranks of all cards of the hand
RanksOf(hand) == {hand[i].rank : i \in 1..Len(hand)}

\* C29: on 6 or 7 distinct cards scored Two Pair the kickers are the
\* highest paired rank, the second highest paired rank and the highest rank
\* among all remaining cards; with three pairs in 7 cards the third pair's
\* rank is the kicker when it is higher than the unpaired card
C29_TwoPairKickers ==
    (FastReturned /\ result.value[1] = TWO_PAIR) =>
       LET pairs == RanksAtLeast(cards, 2)
           kickers == result.value[2]
       IN /\ Len(kickers) = 3
          /\ Cardinality(pairs) >= 2
          /\ kickers[1] = Highest(pairs)
          /\ kickers[2] = Highest(pairs \ {kickers[1]})
          /\ kickers[3] = Highest(RanksOf(cards) \ {kickers[1], kickers[2]})
          /\ (Len(cards) = 7 /\ Cardinality(pairs) = 3) =>
                LET third == Highest(pairs \ {kickers[1], kickers[2]})
                    unpaired == Highest(RanksOf(cards) \ pairs)
                IN  kickers[3] = IF third > unpaired THEN third ELSE unpaired

\* 7 cards holding three pairs and an unpaired card below the third pair:
\* the third pair's rank is the kicker
C29_Witness ==
    /\ FastReturned
    /\ Len(cards) = 7
    /\ RanksAtLeast(cards, 2) = {14, 13, 9}
    /\ RanksOf(cards) = {14, 13, 9, 3}
    /\ result.value = <<TWO_PAIR, <<14, 13, 9>>>>

\* 7 cards holding three pairs and an unpaired card above the third pair:
\* the unpaired card is the kicker
C29_WitnessUnpairedHigher ==
    /\ FastReturned
    /\ Len(cards) = 7
    /\ RanksAtLeast(cards, 2) = {14, 9, 5}
    /\ RanksOf(cards) = {14, 13, 9, 5}
    /\ result.value = <<TWO_PAIR, <<14, 9, 13>>>>

RECURSIVE SumStacks(_, _)
SumStacks(ps, i) == IF i > Len(ps) THEN 0 ELSE ps[i].stack + SumStacks(ps, i + 1)

\* C30: post_blinds conserves chips: every call leaves the sum of the
\* players' stacks plus the pot as it was and grows the pot by exactly the
\* growth of the players' bets; starting from pot 0 and bets 0 the pot is
\* the sum of the bets, which after one call is small blind + big blind = 3
\* when both stacks cover their blind
C30_ChipsConserved ==
    /\ [](/\ pot = SumBets(players, 1)
          /\ (BlindsPosted /\ blinds.calls = 1
                /\ blinds.before[blinds.sb_idx + 1].stack >= 1
                /\ blinds.before[blinds.bb_idx + 1].stack >= 2) => pot = 3)
    /\ [][/\ SumStacks(players', 1) + pot' = SumStacks(players, 1) + pot
          /\ pot' - pot = SumBets(players', 1) - SumBets(players, 1)]_vars

\* three players with 3 chips each after two calls: the blinds posted 1 and
\* 2, then 1 and the 1 chip the big blind had left; 9 chips in all
C30_Witness ==
    /\ BlindsPosted
    /\ blinds.calls = 2
    /\ Len(players) = 3
    /\ pot = 5
    /\ SumStacks(players, 1) = 4
    /\ SumStacks(blinds.before, 1) = 6

====
